---- MODULE Spec2Model ----
(***************************************************************************)
(* Student Management System: the Student entity (models.py), the SQLite   *)
(* store (db.py) and the operations on it, as a state machine.             *)
(*                                                                         *)
(* Text is a sequence of one-character strings, so that strip, upper,      *)
(* lower, title, the regular expressions and SQL LIKE are computed         *)
(* character by character as Python and SQLite compute them.               *)
(***************************************************************************)
EXTENDS Integers, Sequences, FiniteSets, TLC

(***************************************************************************)
(* Characters                                                              *)
(***************************************************************************)

Chars ==
    {" ", "!", "%", "(", ")", "+", "-", ".", "0", "1", "2", "3", "4", "5",
     "6", "7", "@", "A", "B", "C", "E", "L", "O", "S", "X", "_",
     "a", "b", "c", "e", "l", "o", "s", "x"}

\* The ASCII codes of the characters.
Ascii ==
    [c \in Chars |->
       CASE c = " " -> 32 [] c = "!" -> 33 [] c = "%" -> 37 [] c = "(" -> 40
         [] c = ")" -> 41 [] c = "+" -> 43 [] c = "-" -> 45 [] c = "." -> 46
         [] c = "0" -> 48 [] c = "1" -> 49 [] c = "2" -> 50 [] c = "3" -> 51
         [] c = "4" -> 52 [] c = "5" -> 53 [] c = "6" -> 54 [] c = "7" -> 55
         [] c = "@" -> 64
         [] c = "A" -> 65 [] c = "B" -> 66 [] c = "C" -> 67 [] c = "E" -> 69
         [] c = "L" -> 76 [] c = "O" -> 79 [] c = "S" -> 83 [] c = "X" -> 88
         [] c = "_" -> 95
         [] c = "a" -> 97 [] c = "b" -> 98 [] c = "c" -> 99 [] c = "e" -> 101
         [] c = "l" -> 108 [] c = "o" -> 111 [] c = "s" -> 115 [] c = "x" -> 120]

\* The code of a character (Python ord, a byte of SQLite's BINARY collation).
Code(c) == Ascii[c]

Chr(n) == CHOOSE c \in Chars : Code(c) = n

IsUpper(c) == Code(c) \in 65..90
IsLower(c) == Code(c) \in 97..122
IsAlpha(c) == IsUpper(c) \/ IsLower(c)
IsDigit(c) == Code(c) \in 48..57
IsSpace(c) == c = " "

CharUpper(c) == IF IsLower(c) THEN Chr(Code(c) - 32) ELSE c
CharLower(c) == IF IsUpper(c) THEN Chr(Code(c) + 32) ELSE c

(***************************************************************************)
(* Python str methods                                                      *)
(***************************************************************************)

RECURSIVE lstrip(_)
lstrip(s) == IF s # <<>> /\ IsSpace(Head(s)) THEN lstrip(Tail(s)) ELSE s

RECURSIVE rstrip(_)
rstrip(s) ==
    IF s # <<>> /\ IsSpace(s[Len(s)]) THEN rstrip(SubSeq(s, 1, Len(s) - 1)) ELSE s

strip(s) == rstrip(lstrip(s))

upper(s) == [i \in 1..Len(s) |-> CharUpper(s[i])]
lower(s) == [i \in 1..Len(s) |-> CharLower(s[i])]

\* str.title: a cased character is upper-cased when the character before it
\* is uncased (or it is the first), lower-cased otherwise.
title(s) ==
    [i \in 1..Len(s) |->
        IF i > 1 /\ IsAlpha(s[i - 1]) THEN CharLower(s[i]) ELSE CharUpper(s[i])]

(***************************************************************************)
(* Student (models.py)                                                     *)
(***************************************************************************)

None == 0

NoText == <<>>

\* A constructor call that raised ValueError(msg).
Invalid(msg) ==
    [ok |-> FALSE, err |-> msg, id |-> None, name |-> NoText, roll |-> NoText,
     department |-> NoText, email |-> NoText, phone |-> NoText]

\* Variant of validate_name that forgets .title().
validate_name_no_title(name) ==
    IF name = <<>> \/ strip(name) = <<>>
    THEN <<FALSE, "Name cannot be empty">>
    ELSE <<TRUE, strip(name)>>

\* Each validator returns <<accepted, cleaned value or message>>.
validate_name(name) ==
    IF name = <<>> \/ strip(name) = <<>>
    THEN <<FALSE, "Name cannot be empty">>
    ELSE <<TRUE, title(strip(name))>>

IsRollChar(c) == IsUpper(c) \/ IsDigit(c) \/ c = "-" \/ c = "_"

validate_roll(roll) ==
    IF roll = <<>> \/ strip(roll) = <<>>
    THEN <<FALSE, "Roll number cannot be empty">>
    ELSE LET r == upper(strip(roll)) IN
         IF \A i \in 1..Len(r) : IsRollChar(r[i])
         THEN <<TRUE, r>>
         ELSE <<FALSE, "Roll number can only contain letters, numbers, hyphens, and underscores">>

validate_department(department) ==
    IF department = <<>> \/ strip(department) = <<>>
    THEN <<FALSE, "Department cannot be empty">>
    ELSE <<TRUE, title(strip(department))>>

IsLocalChar(c) == IsAlpha(c) \/ IsDigit(c) \/ c \in {".", "_", "%", "+", "-"}
IsDomainChar(c) == IsAlpha(c) \/ IsDigit(c) \/ c \in {".", "-"}

\* ^[a-zA-Z0-9._%+-]+@[a-zA-Z0-9.-]+\.[a-zA-Z]{2,}$
email_pattern(e) ==
    \E at \in 2..Len(e) : \E dot \in (at + 2)..(Len(e) - 2) :
        /\ e[at] = "@"
        /\ e[dot] = "."
        /\ \A i \in 1..(at - 1) : IsLocalChar(e[i])
        /\ \A i \in (at + 1)..(dot - 1) : IsDomainChar(e[i])
        /\ \A i \in (dot + 1)..Len(e) : IsAlpha(e[i])

\* Variant of validate_email that forgets .lower().
validate_email_keeps_case(email) ==
    IF email = <<>> \/ strip(email) = <<>>
    THEN <<FALSE, "Email cannot be empty">>
    ELSE LET e == strip(email) IN
         IF email_pattern(e) THEN <<TRUE, e>> ELSE <<FALSE, "Invalid email format">>

validate_email(email) ==
    IF email = <<>> \/ strip(email) = <<>>
    THEN <<FALSE, "Email cannot be empty">>
    ELSE LET e == lower(strip(email)) IN
         IF email_pattern(e) THEN <<TRUE, e>> ELSE <<FALSE, "Invalid email format">>

IsPhoneChar(c) == IsDigit(c) \/ IsSpace(c) \/ c \in {"-", "(", ")"}

\* Variant of phone_pattern that lets '+' stand anywhere.
phone_pattern_plus_anywhere(p) ==
    /\ Len(p) \in 7..15
    /\ \A i \in 1..Len(p) : IsPhoneChar(p[i]) \/ p[i] = "+"

\* ^[\+]?[0-9\s\-\(\)]{7,15}$
phone_pattern(p) ==
    LET body == IF p # <<>> /\ Head(p) = "+" THEN Tail(p) ELSE p IN
    /\ Len(body) \in 7..15
    /\ \A i \in 1..Len(body) : IsPhoneChar(body[i])

validate_phone(phone) ==
    IF phone = <<>>
    THEN <<TRUE, <<>>>>
    ELSE LET p == strip(phone) IN
         IF phone_pattern(p) THEN <<TRUE, p>> ELSE <<FALSE, "Invalid phone number format">>

\* Variant of Student that validates the email before the other fields.
Student_email_first(name, roll, department, email, phone, student_id) ==
    LET n == validate_name(name)
        r == validate_roll(roll)
        d == validate_department(department)
        e == validate_email(email)
        p == validate_phone(phone)
    IN  IF ~e[1] THEN Invalid(e[2])
        ELSE IF ~n[1] THEN Invalid(n[2])
        ELSE IF ~r[1] THEN Invalid(r[2])
        ELSE IF ~d[1] THEN Invalid(d[2])
        ELSE IF ~p[1] THEN Invalid(p[2])
        ELSE [ok |-> TRUE, err |-> "", id |-> student_id, name |-> n[2],
              roll |-> r[2], department |-> d[2], email |-> e[2], phone |-> p[2]]

\* Student.__init__: the validators run in this order and the first failure
\* is the ValueError of the call.
Student(name, roll, department, email, phone, student_id) ==
    LET n == validate_name(name)
        r == validate_roll(roll)
        d == validate_department(department)
        e == validate_email(email)
        p == validate_phone(phone)
    IN  IF ~n[1] THEN Invalid(n[2])
        ELSE IF ~r[1] THEN Invalid(r[2])
        ELSE IF ~d[1] THEN Invalid(d[2])
        ELSE IF ~e[1] THEN Invalid(e[2])
        ELSE IF ~p[1] THEN Invalid(p[2])
        ELSE [ok |-> TRUE, err |-> "", id |-> student_id, name |-> n[2],
              roll |-> r[2], department |-> d[2], email |-> e[2], phone |-> p[2]]

\* Variant of to_dict that files the roll under 'department'.
to_dict_roll_as_department(s) ==
    [id |-> s.id, name |-> s.name, roll |-> s.roll, department |-> s.roll,
     email |-> s.email, phone |-> s.phone]

\* Student.to_dict
to_dict(s) ==
    [id |-> s.id, name |-> s.name, roll |-> s.roll, department |-> s.department,
     email |-> s.email, phone |-> s.phone]

\* Variant of from_dict that reads the department from the wrong key.
from_dict_wrong_key(data) ==
    Student(data.name, data.roll, data.name, data.email, data.phone, data.id)

\* Student.from_dict on a stored row: the constructor runs again.
from_dict(data) ==
    Student(data.name, data.roll, data.department, data.email, data.phone, data.id)

(***************************************************************************)
(* The SQLite file (db.py)                                                 *)
(***************************************************************************)

\* The students row a Student is stored as (created_at and updated_at are
\* written by SQLite and read by no operation).
RowOf(s, id) ==
    [id |-> id, name |-> s.name, roll |-> s.roll, department |-> s.department,
     email |-> s.email, phone |-> s.phone]

\* Variant of IndexLookup that compares the value with the wrong column.
IndexLookup_wrong_column(table, column, value) == {r \in table : r.name = value}

\* The rows of a table whose TEXT column equals a value; SQLite compares TEXT
\* with the BINARY collation, byte by byte. The WHERE col = ? lookups and the
\* UNIQUE indexes of roll and email both resolve through it.
IndexLookup(table, column, value) == {r \in table : r[column] = value}

\* sqlite3.connect: the connection sees the committed file and carries its
\* own uncommitted work.
connect(file) == [committed |-> file, work |-> file]

\* conn.commit()
commit(conn) == [conn EXCEPT !.committed = conn.work]

\* Variant of disconnect that commits what is pending before it closes.
disconnect_commits(conn) == conn.work

\* Database.disconnect: closing the connection rolls uncommitted work back;
\* what stays is the committed file.
disconnect(conn) == conn.committed

\* Variant of InsertStudent on a table whose id is not AUTOINCREMENT: the new
\* row takes the id after the largest one in the table.
InsertStudent_rowid(conn, s) ==
    LET w == conn.work
        id == IF w.students = {} THEN 1
              ELSE 1 + CHOOSE m \in {r.id : r \in w.students} :
                           \A r \in w.students : r.id <= m
    IN  IF IndexLookup(w.students, "roll", s.roll) # {}
           \/ IndexLookup(w.students, "email", s.email) # {}
        THEN [ok |-> FALSE, conn |-> conn, lastrowid |-> None]
        ELSE [ok |-> TRUE,
              conn |-> [conn EXCEPT !.work.students = @ \cup {RowOf(s, id)},
                                    !.work.student_seq = id],
              lastrowid |-> id]

\* Variant of InsertStudent on a table whose roll and email columns are not
\* UNIQUE.
InsertStudent_no_unique(conn, s) ==
    LET id == conn.work.student_seq + 1
    IN  [ok |-> TRUE,
         conn |-> [conn EXCEPT !.work.students = @ \cup {RowOf(s, id)},
                               !.work.student_seq = id],
         lastrowid |-> id]

\* INSERT INTO students: AUTOINCREMENT takes the id after the largest ever
\* used; the UNIQUE columns reject a repeated roll or email
\* (sqlite3.IntegrityError).
InsertStudent(conn, s) ==
    LET w == conn.work
        id == w.student_seq + 1
    IN  IF IndexLookup(w.students, "roll", s.roll) # {}
           \/ IndexLookup(w.students, "email", s.email) # {}
        THEN [ok |-> FALSE, conn |-> conn, lastrowid |-> None]
        ELSE [ok |-> TRUE,
              conn |-> [conn EXCEPT !.work.students = @ \cup {RowOf(s, id)},
                                    !.work.student_seq = id],
              lastrowid |-> id]

\* UPDATE students SET ... WHERE id = ?: rewrites the row of that id; the
\* UNIQUE columns reject a roll or email held by another row.
UpdateStudentRow(conn, s) ==
    LET w == conn.work
        hit == {r \in w.students : r.id = s.id}
        others == w.students \ hit
    IN  IF hit # {} /\ (IndexLookup(others, "roll", s.roll) # {}
                        \/ IndexLookup(others, "email", s.email) # {})
        THEN [ok |-> FALSE, conn |-> conn, rowcount |-> 0]
        ELSE [ok |-> TRUE,
              conn |-> [conn EXCEPT !.work.students =
                            others \cup {RowOf(s, r.id) : r \in hit}],
              rowcount |-> Cardinality(hit)]

\* Variant of DeleteStudentRow whose DELETE has no WHERE clause.
DeleteStudentRow_no_where(conn, student_id) ==
    LET hit == conn.work.students
    IN  [conn |-> [conn EXCEPT !.work.students = @ \ hit],
         rowcount |-> Cardinality(hit)]

\* DELETE FROM students WHERE id = ?
DeleteStudentRow(conn, student_id) ==
    LET hit == {r \in conn.work.students : r.id = student_id}
    IN  [conn |-> [conn EXCEPT !.work.students = @ \ hit],
         rowcount |-> Cardinality(hit)]

\* Error messages (the offending value the source appends is left out).
ErrConnect == "Database connection failed"
ErrInit == "Database initialization failed"
ErrAdd == "Failed to add student"
ErrGet == "Failed to get student"
ErrGetAll == "Failed to get students"
ErrUpdate == "Failed to update student"
ErrDelete == "Failed to delete student"
ErrSearch == "Failed to search students"
ErrDupRoll == "Student with roll number already exists"
ErrDupEmail == "Student with email already exists"
ErrNotFound == "Student not found"

\* The storage faults an operation can meet: none, sqlite3.connect raising,
\* the first execute raising, the commit raising.
Faults == {"none", "connect", "execute", "commit"}

\* An operation's outcome: the file it leaves, its return value, and the
\* message of the exception it raised ("" when it returned).
Returned(file, ret) == [file |-> file, ret |-> ret, err |-> ""]
Raised(file, msg) == [file |-> file, ret |-> None, err |-> msg]

\* The default user's name and password.
admin == <<"a", "d", "m", "i", "n">>
admin123 == <<"a", "d", "m", "i", "n", "1", "2", "3">>

\* Variant of InsertUser on a table whose username column is not UNIQUE.
InsertUser_no_unique(conn, username, password) ==
    LET id == conn.work.user_seq + 1
    IN  [ok |-> TRUE,
         conn |-> [conn EXCEPT
                     !.work.users = @ \cup {[id |-> id, username |-> username,
                                             password |-> password]},
                     !.work.user_seq = id],
         lastrowid |-> id]

\* INSERT INTO users: AUTOINCREMENT numbers the row; the UNIQUE username
\* column rejects a repeated username (sqlite3.IntegrityError).
InsertUser(conn, username, password) ==
    LET w == conn.work
        id == w.user_seq + 1
    IN  IF IndexLookup(w.users, "username", username) # {}
        THEN [ok |-> FALSE, conn |-> conn, lastrowid |-> None]
        ELSE [ok |-> TRUE,
              conn |-> [conn EXCEPT
                          !.work.users = @ \cup {[id |-> id, username |-> username,
                                                  password |-> password]},
                          !.work.user_seq = id],
              lastrowid |-> id]

\* Variant of initialize_database that seeds the default user whenever no
\* user is named admin.
initialize_database_seeds_if_no_admin(file, fault) ==
    IF fault = "connect" THEN Raised(file, ErrConnect)
    ELSE IF fault = "execute" THEN Raised(disconnect(connect(file)), ErrInit)
    ELSE
      LET c1 == commit([connect(file) EXCEPT !.work.schema = TRUE])
      IN  IF IndexLookup(c1.work.users, "username", admin) = {}
          THEN LET ins == InsertUser(c1, admin, admin123)
               IN  IF ~ins.ok \/ fault = "commit"
                   THEN Raised(disconnect(ins.conn), ErrInit)
                   ELSE Returned(disconnect(commit(ins.conn)), None)
          ELSE Returned(disconnect(c1), None)

\* Database.initialize_database: the tables and indexes are created and
\* committed, then the default user is inserted if the users table is empty.
initialize_database(file, fault) ==
    IF fault = "connect" THEN Raised(file, ErrConnect)
    ELSE IF fault = "execute" THEN Raised(disconnect(connect(file)), ErrInit)
    ELSE
      LET c1 == commit([connect(file) EXCEPT !.work.schema = TRUE])
      IN  IF Cardinality(c1.work.users) = 0
          THEN LET ins == InsertUser(c1, admin, admin123)
               IN  IF ~ins.ok \/ fault = "commit"
                   THEN Raised(disconnect(ins.conn), ErrInit)
                   ELSE Returned(disconnect(commit(ins.conn)), None)
          ELSE Returned(disconnect(c1), None)

\* Variant of add_student that checks the email before the roll.
add_student_email_first(file, student, fault) ==
    IF fault = "connect" THEN Raised(file, ErrConnect)
    ELSE
      LET conn == connect(file) IN
      IF ~file.schema \/ fault = "execute" THEN Raised(disconnect(conn), ErrAdd)
      ELSE IF IndexLookup(conn.work.students, "email", student.email) # {}
      THEN Raised(disconnect(conn), ErrDupEmail)
      ELSE IF IndexLookup(conn.work.students, "roll", student.roll) # {}
      THEN Raised(disconnect(conn), ErrDupRoll)
      ELSE
        LET ins == InsertStudent(conn, student) IN
        IF ~ins.ok THEN Raised(disconnect(ins.conn), ErrAdd)
        ELSE IF fault = "commit" THEN Raised(disconnect(ins.conn), ErrAdd)
        ELSE Returned(disconnect(commit(ins.conn)), ins.lastrowid)

\* Database.add_student
add_student(file, student, fault) ==
    IF fault = "connect" THEN Raised(file, ErrConnect)
    ELSE
      LET conn == connect(file) IN
      IF ~file.schema \/ fault = "execute" THEN Raised(disconnect(conn), ErrAdd)
      ELSE IF IndexLookup(conn.work.students, "roll", student.roll) # {}
      THEN Raised(disconnect(conn), ErrDupRoll)
      ELSE IF IndexLookup(conn.work.students, "email", student.email) # {}
      THEN Raised(disconnect(conn), ErrDupEmail)
      ELSE
        LET ins == InsertStudent(conn, student) IN
        IF ~ins.ok THEN Raised(disconnect(ins.conn), ErrAdd)
        ELSE IF fault = "commit" THEN Raised(disconnect(ins.conn), ErrAdd)
        ELSE Returned(disconnect(commit(ins.conn)), ins.lastrowid)

\* Variant of update_student whose duplicate checks lack "AND id != ?".
update_student_no_exclude(file, student, fault) ==
    IF fault = "connect" THEN Raised(file, ErrConnect)
    ELSE
      LET conn == connect(file)
          tbl == conn.work.students
      IN
      IF ~file.schema \/ fault = "execute" THEN Raised(disconnect(conn), ErrUpdate)
      ELSE IF {r \in tbl : r.id = student.id} = {}
      THEN Raised(disconnect(conn), ErrNotFound)
      ELSE IF IndexLookup(tbl, "roll", student.roll) # {}
      THEN Raised(disconnect(conn), ErrDupRoll)
      ELSE IF IndexLookup(tbl, "email", student.email) # {}
      THEN Raised(disconnect(conn), ErrDupEmail)
      ELSE
        LET upd == UpdateStudentRow(conn, student) IN
        IF ~upd.ok THEN Raised(disconnect(upd.conn), ErrUpdate)
        ELSE IF fault = "commit" THEN Raised(disconnect(upd.conn), ErrUpdate)
        ELSE Returned(disconnect(commit(upd.conn)), upd.rowcount > 0)

\* Variant of update_student that looks for the student after the duplicate
\* checks.
update_student_dup_first(file, student, fault) ==
    IF fault = "connect" THEN Raised(file, ErrConnect)
    ELSE
      LET conn == connect(file)
          tbl == conn.work.students
      IN
      IF ~file.schema \/ fault = "execute" THEN Raised(disconnect(conn), ErrUpdate)
      ELSE IF {r \in IndexLookup(tbl, "roll", student.roll) : r.id # student.id} # {}
      THEN Raised(disconnect(conn), ErrDupRoll)
      ELSE IF {r \in IndexLookup(tbl, "email", student.email) : r.id # student.id} # {}
      THEN Raised(disconnect(conn), ErrDupEmail)
      ELSE IF {r \in tbl : r.id = student.id} = {}
      THEN Raised(disconnect(conn), ErrNotFound)
      ELSE
        LET upd == UpdateStudentRow(conn, student) IN
        IF ~upd.ok THEN Raised(disconnect(upd.conn), ErrUpdate)
        ELSE IF fault = "commit" THEN Raised(disconnect(upd.conn), ErrUpdate)
        ELSE Returned(disconnect(commit(upd.conn)), upd.rowcount > 0)

\* Database.update_student
update_student(file, student, fault) ==
    IF fault = "connect" THEN Raised(file, ErrConnect)
    ELSE
      LET conn == connect(file)
          tbl == conn.work.students
      IN
      IF ~file.schema \/ fault = "execute" THEN Raised(disconnect(conn), ErrUpdate)
      ELSE IF {r \in tbl : r.id = student.id} = {}
      THEN Raised(disconnect(conn), ErrNotFound)
      ELSE IF {r \in IndexLookup(tbl, "roll", student.roll) : r.id # student.id} # {}
      THEN Raised(disconnect(conn), ErrDupRoll)
      ELSE IF {r \in IndexLookup(tbl, "email", student.email) : r.id # student.id} # {}
      THEN Raised(disconnect(conn), ErrDupEmail)
      ELSE
        LET upd == UpdateStudentRow(conn, student) IN
        IF ~upd.ok THEN Raised(disconnect(upd.conn), ErrUpdate)
        ELSE IF fault = "commit" THEN Raised(disconnect(upd.conn), ErrUpdate)
        ELSE Returned(disconnect(commit(upd.conn)), upd.rowcount > 0)

\* Database.delete_student
delete_student(file, student_id, fault) ==
    IF fault = "connect" THEN Raised(file, ErrConnect)
    ELSE
      LET conn == connect(file) IN
      IF ~file.schema \/ fault = "execute" THEN Raised(disconnect(conn), ErrDelete)
      ELSE
        LET del == DeleteStudentRow(conn, student_id) IN
        IF fault = "commit" THEN Raised(disconnect(del.conn), ErrDelete)
        ELSE Returned(disconnect(commit(del.conn)), del.rowcount > 0)

(***************************************************************************)
(* Users (models.py, db.py)                                                *)
(***************************************************************************)

ErrAuth == "Authentication failed"
ErrAddUser == "Failed to add user"
ErrUserCount == "Failed to get user count"

\* User.__init__: the username is validated and trimmed, the password is
\* kept as given.
User(username, password, user_id) ==
    IF username = <<>> \/ strip(username) = <<>>
    THEN [ok |-> FALSE, err |-> "Username cannot be empty", id |-> None,
          username |-> NoText, password |-> NoText]
    ELSE IF Len(strip(username)) < 3
    THEN [ok |-> FALSE, err |-> "Username must be at least 3 characters long",
          id |-> None, username |-> NoText, password |-> NoText]
    ELSE [ok |-> TRUE, err |-> "", id |-> user_id,
          username |-> strip(username), password |-> password]

\* Variant of authenticate_user that trims the username before the lookup.
authenticate_user_strips(file, username, password, fault) ==
    IF fault = "connect" THEN Raised(file, ErrConnect)
    ELSE
      LET conn == connect(file) IN
      IF ~file.schema \/ fault = "execute" THEN Raised(disconnect(conn), ErrAuth)
      ELSE Returned(disconnect(conn),
                    {r \in IndexLookup(conn.work.users, "username", strip(username)) :
                        r.password = password} # {})

\* Database.authenticate_user
authenticate_user(file, username, password, fault) ==
    IF fault = "connect" THEN Raised(file, ErrConnect)
    ELSE
      LET conn == connect(file) IN
      IF ~file.schema \/ fault = "execute" THEN Raised(disconnect(conn), ErrAuth)
      ELSE Returned(disconnect(conn),
                    {r \in IndexLookup(conn.work.users, "username", username) :
                        r.password = password} # {})

\* Database.add_user
add_user(file, user, fault) ==
    IF fault = "connect" THEN Raised(file, ErrConnect)
    ELSE
      LET conn == connect(file) IN
      IF ~file.schema \/ fault = "execute" THEN Raised(disconnect(conn), ErrAddUser)
      ELSE
        LET ins == InsertUser(conn, user.username, user.password) IN
        IF ~ins.ok THEN Raised(disconnect(ins.conn), ErrAddUser)
        ELSE IF fault = "commit" THEN Raised(disconnect(ins.conn), ErrAddUser)
        ELSE Returned(disconnect(commit(ins.conn)), ins.lastrowid)

\* Database.get_user_count
get_user_count(file, fault) ==
    IF fault = "connect" THEN Raised(file, ErrConnect)
    ELSE
      LET conn == connect(file) IN
      IF ~file.schema \/ fault = "execute" THEN Raised(disconnect(conn), ErrUserCount)
      ELSE Returned(disconnect(conn), Cardinality(conn.work.users))

(***************************************************************************)
(* Queries (db.py)                                                         *)
(***************************************************************************)

\* BINARY collation on TEXT: the first differing byte decides, a proper
\* prefix sorts first.
RECURSIVE TextLess(_, _)
TextLess(a, b) ==
    IF b = <<>> THEN FALSE
    ELSE IF a = <<>> THEN TRUE
    ELSE IF Head(a) = Head(b) THEN TextLess(Tail(a), Tail(b))
    ELSE Code(Head(a)) < Code(Head(b))

\* A full table scan visits the rows in ascending rowid.
RECURSIVE Scan(_)
Scan(table) ==
    IF table = {} THEN <<>>
    ELSE LET first == CHOOSE r \in table : \A o \in table : r.id <= o.id
         IN  <<first>> \o Scan(table \ {first})

\* Variant of SorterInsert that puts a row before the rows of equal name.
RECURSIVE SorterInsert_before_equal(_, _)
SorterInsert_before_equal(sorted, row) ==
    IF sorted = <<>> THEN <<row>>
    ELSE IF ~TextLess(Head(sorted).name, row.name) THEN <<row>> \o sorted
    ELSE <<Head(sorted)>> \o SorterInsert_before_equal(Tail(sorted), row)

\* The sorter of ORDER BY name takes a scanned row: it goes after every row
\* whose name is not greater, so rows of equal name keep their scan order.
RECURSIVE SorterInsert(_, _)
SorterInsert(sorted, row) ==
    IF sorted = <<>> THEN <<row>>
    ELSE IF TextLess(row.name, Head(sorted).name) THEN <<row>> \o sorted
    ELSE <<Head(sorted)>> \o SorterInsert(Tail(sorted), row)

\* ... ORDER BY name
RECURSIVE OrderByName(_)
OrderByName(rows) ==
    IF rows = <<>> THEN <<>>
    ELSE SorterInsert(OrderByName(SubSeq(rows, 1, Len(rows) - 1)), rows[Len(rows)])

\* SQLite's LIKE: '%' matches any run of characters, '_' any one character,
\* any other character matches itself with ASCII letters compared without
\* case. No ESCAPE is given.
RECURSIVE like(_, _)
like(pattern, text) ==
    IF pattern = <<>> THEN text = <<>>
    ELSE IF Head(pattern) = "%"
    THEN like(Tail(pattern), text) \/ (text # <<>> /\ like(pattern, Tail(text)))
    ELSE IF text = <<>> THEN FALSE
    ELSE IF Head(pattern) = "_" THEN like(Tail(pattern), Tail(text))
    ELSE CharUpper(Head(pattern)) = CharUpper(Head(text))
         /\ like(Tail(pattern), Tail(text))

\* The value a query returns when no Student is involved.
NoStudent == Invalid("")

\* [Student.from_dict(dict(row)) for row in rows]: the list of Students, or
\* the ValueError of the first row the constructor rejects.
StudentList(file, rows) ==
    LET built == [i \in 1..Len(rows) |-> from_dict(rows[i])]
        bad == {i \in 1..Len(rows) : ~built[i].ok}
    IN  IF bad = {} THEN Returned(file, built)
        ELSE Raised(file, built[CHOOSE i \in bad : \A j \in bad : i <= j].err)

\* Database.get_student
get_student(file, student_id, fault) ==
    IF fault = "connect" THEN Raised(file, ErrConnect)
    ELSE
      LET conn == connect(file) IN
      IF ~file.schema \/ fault = "execute" THEN Raised(disconnect(conn), ErrGet)
      ELSE
        LET rows == {r \in conn.work.students : r.id = student_id} IN
        IF rows = {} THEN Returned(disconnect(conn), NoStudent)
        ELSE LET s == from_dict(CHOOSE r \in rows : TRUE) IN
             IF s.ok THEN Returned(disconnect(conn), s)
             ELSE Raised(disconnect(conn), s.err)

\* Database.get_all_students
get_all_students(file, fault) ==
    IF fault = "connect" THEN Raised(file, ErrConnect)
    ELSE
      LET conn == connect(file) IN
      IF ~file.schema \/ fault = "execute" THEN Raised(disconnect(conn), ErrGetAll)
      ELSE StudentList(disconnect(conn), OrderByName(Scan(conn.work.students)))

\* Database.search_students
search_students(file, query, fault) ==
    IF fault = "connect" THEN Raised(file, ErrConnect)
    ELSE
      LET conn == connect(file)
          search_pattern == <<"%">> \o query \o <<"%">>
      IN
      IF ~file.schema \/ fault = "execute" THEN Raised(disconnect(conn), ErrSearch)
      ELSE
        LET rows == {r \in conn.work.students :
                        \/ like(search_pattern, r.name)
                        \/ like(search_pattern, r.roll)
                        \/ like(search_pattern, r.department)
                        \/ like(search_pattern, r.email)}
        IN  StudentList(disconnect(conn), OrderByName(Scan(rows)))

ErrCount == "Failed to get student count by department"

\* Variant of GroupCount whose COUNT(*) runs over the whole table.
GroupCount_whole_table(table, department) == Cardinality(table)

\* COUNT(*) of one group of GROUP BY department.
GroupCount(table, department) ==
    Cardinality({r \in table : r.department = department})

\* GROUP BY department ORDER BY department: one <<department, count>> row
\* for each department value of the table, in BINARY order.
RECURSIVE GroupByDepartment(_, _)
GroupByDepartment(table, departments) ==
    IF departments = {} THEN <<>>
    ELSE LET first == CHOOSE d \in departments :
                         \A o \in departments : o = d \/ TextLess(d, o)
         IN  <<<<first, GroupCount(table, first)>>>>
             \o GroupByDepartment(table, departments \ {first})

\* Database.get_student_count_by_department: the dict, as its items in
\* insertion order.
get_student_count_by_department(file, fault) ==
    IF fault = "connect" THEN Raised(file, ErrConnect)
    ELSE
      LET conn == connect(file)
          tbl == conn.work.students
      IN
      IF ~file.schema \/ fault = "execute" THEN Raised(disconnect(conn), ErrCount)
      ELSE Returned(disconnect(conn),
                    GroupByDepartment(tbl, {r.department : r \in tbl}))

(***************************************************************************)
(* CSV import (utils.py, gui.py)                                           *)
(***************************************************************************)

\* CSVHandler.import_students_from_csv on a file whose header holds the
\* columns fieldnames and whose data rows are rows (the cells as written in
\* the file).  The required columns must exist; each cell is trimmed; a row
\* that lacks a required value raises, and the exception ends the call.
\* row is the number of the file's row the failure names (the header is
\* row 1).
import_students_from_csv(fieldnames, rows) ==
    IF ~({"Name", "Roll", "Department", "Email"} \subseteq fieldnames)
    THEN [ret |-> None, row |-> None,
          err |-> "Failed to import CSV: Missing required columns"]
    ELSE
      LET student_data(row) ==
              [name |-> strip(row.name), roll |-> strip(row.roll),
               department |-> strip(row.department),
               email |-> strip(row.email),
               phone |-> IF "Phone" \in fieldnames THEN strip(row.phone)
                         ELSE <<>>]
          lacking == {i \in 1..Len(rows) :
                        LET d == student_data(rows[i])
                        IN  <<>> \in {d.name, d.roll, d.department, d.email}}
      IN  IF lacking # {}
          THEN [ret |-> None,
                row |-> 1 + CHOOSE i \in lacking : \A j \in lacking : i <= j,
                err |-> "Failed to import CSV: Error in row"]
          ELSE [ret |-> [i \in 1..Len(rows) |-> student_data(rows[i])],
                row |-> None, err |-> ""]

\* Variant of validate_rows that does not remember the emails it has seen.
RECURSIVE validate_rows_forgets_emails(_, _, _, _)
validate_rows_forgets_emails(students_data, i, seen_rolls, seen_emails) ==
    IF i > Len(students_data) THEN <<>>
    ELSE
      LET d == students_data[i]
          student == Student(d.name, d.roll, d.department, d.email, d.phone, None)
      IN  IF ~student.ok
          THEN <<<<i, student.err>>>>
               \o validate_rows_forgets_emails(students_data, i + 1, seen_rolls,
                                               seen_emails)
          ELSE (IF student.roll \in seen_rolls
                THEN <<<<i, "Duplicate roll number in import data">>>> ELSE <<>>)
               \o validate_rows_forgets_emails(students_data, i + 1,
                                               seen_rolls \cup {student.roll},
                                               seen_emails)

\* Variant of validate_rows that skips the email check of a row whose roll
\* is a duplicate.
RECURSIVE validate_rows_one_error(_, _, _, _)
validate_rows_one_error(students_data, i, seen_rolls, seen_emails) ==
    IF i > Len(students_data) THEN <<>>
    ELSE
      LET d == students_data[i]
          student == Student(d.name, d.roll, d.department, d.email, d.phone, None)
      IN  IF ~student.ok
          THEN <<<<i, student.err>>>>
               \o validate_rows_one_error(students_data, i + 1, seen_rolls,
                                          seen_emails)
          ELSE (IF student.roll \in seen_rolls
                THEN <<<<i, "Duplicate roll number in import data">>>>
                ELSE IF student.email \in seen_emails
                THEN <<<<i, "Duplicate email in import data">>>> ELSE <<>>)
               \o validate_rows_one_error(students_data, i + 1,
                                          seen_rolls \cup {student.roll},
                                          seen_emails \cup {student.email})

\* Variant of validate_rows that returns at the first row the constructor
\* rejects.
RECURSIVE validate_rows_stops(_, _, _, _)
validate_rows_stops(students_data, i, seen_rolls, seen_emails) ==
    IF i > Len(students_data) THEN <<>>
    ELSE
      LET d == students_data[i]
          student == Student(d.name, d.roll, d.department, d.email, d.phone, None)
      IN  IF ~student.ok
          THEN <<<<i, student.err>>>>
          ELSE (IF student.roll \in seen_rolls
                THEN <<<<i, "Duplicate roll number in import data">>>> ELSE <<>>)
               \o (IF student.email \in seen_emails
                   THEN <<<<i, "Duplicate email in import data">>>> ELSE <<>>)
               \o validate_rows_stops(students_data, i + 1,
                                      seen_rolls \cup {student.roll},
                                      seen_emails \cup {student.email})

\* CSVHandler.validate_csv_data: the error list of a batch. An error is
\* <<row number, message>>.
RECURSIVE validate_rows(_, _, _, _)
validate_rows(students_data, i, seen_rolls, seen_emails) ==
    IF i > Len(students_data) THEN <<>>
    ELSE
      LET d == students_data[i]
          student == Student(d.name, d.roll, d.department, d.email, d.phone, None)
      IN  IF ~student.ok
          THEN <<<<i, student.err>>>>
               \o validate_rows(students_data, i + 1, seen_rolls, seen_emails)
          ELSE (IF student.roll \in seen_rolls
                THEN <<<<i, "Duplicate roll number in import data">>>> ELSE <<>>)
               \o (IF student.email \in seen_emails
                   THEN <<<<i, "Duplicate email in import data">>>> ELSE <<>>)
               \o validate_rows(students_data, i + 1,
                                seen_rolls \cup {student.roll},
                                seen_emails \cup {student.email})

validate_csv_data(students_data) == validate_rows(students_data, 1, {}, {})

\* Variant of import_rows that leaves the loop at the first failing row.
RECURSIVE import_rows_stops_at_failure(_, _, _, _)
import_rows_stops_at_failure(file, students_data, faults, i) ==
    IF i > Len(students_data)
    THEN [file |-> file, imported_count |-> 0, error_count |-> 0]
    ELSE
      LET d == students_data[i]
          student == Student(d.name, d.roll, d.department, d.email, d.phone, None)
          out == IF student.ok THEN add_student(file, student, faults[i])
                 ELSE Raised(file, student.err)
          rest == import_rows_stops_at_failure(out.file, students_data, faults, i + 1)
      IN  IF out.err = ""
          THEN [rest EXCEPT !.imported_count = @ + 1]
          ELSE [file |-> out.file, imported_count |-> 0, error_count |-> 1]

\* The insertion loop of _import_csv from row i on: every row builds its
\* Student and calls add_student; an exception counts the row as failed and
\* the loop goes on.
RECURSIVE import_rows(_, _, _, _)
import_rows(file, students_data, faults, i) ==
    IF i > Len(students_data)
    THEN [file |-> file, imported_count |-> 0, error_count |-> 0]
    ELSE
      LET d == students_data[i]
          student == Student(d.name, d.roll, d.department, d.email, d.phone, None)
          out == IF student.ok THEN add_student(file, student, faults[i])
                 ELSE Raised(file, student.err)
          rest == import_rows(out.file, students_data, faults, i + 1)
      IN  IF out.err = ""
          THEN [rest EXCEPT !.imported_count = @ + 1]
          ELSE [rest EXCEPT !.error_count = @ + 1]

\* Variant of import_csv that goes on to the confirmation although the
\* batch has validation errors.
import_csv_ignores_errors(file, students_data, confirm, faults) ==
    IF students_data = <<>> THEN Returned(file, <<0, 0>>)
    ELSE IF ~confirm THEN Returned(file, <<0, 0>>)
    ELSE LET r == import_rows(file, students_data, faults, 1)
         IN  Returned(r.file, <<r.imported_count, r.error_count>>)

\* StudentManagementApp._import_csv on the rows read from the file: nothing
\* is inserted when the batch is empty, has validation errors, or the user
\* declines.
import_csv(file, students_data, confirm, faults) ==
    IF students_data = <<>> THEN Returned(file, <<0, 0>>)
    ELSE IF validate_csv_data(students_data) # <<>> THEN Returned(file, <<0, 0>>)
    ELSE IF ~confirm THEN Returned(file, <<0, 0>>)
    ELSE LET r == import_rows(file, students_data, faults, 1)
         IN  Returned(r.file, <<r.imported_count, r.error_count>>)

(***************************************************************************)
(* Reports                                                                 *)
(***************************************************************************)

\* sorted(departments.keys()): the keys in ascending order.
RECURSIVE sorted(_)
sorted(keys) ==
    IF keys = {} THEN <<>>
    ELSE LET first == CHOOSE d \in keys : \A o \in keys : o = d \/ TextLess(d, o)
         IN  <<first>> \o sorted(keys \ {first})

\* Variant of percentage that cuts the digits after the first decimal off.
percentage_truncated(count, total_students) ==
    LET tenths == (1000 * count) \div total_students
    IN  <<tenths \div 10, tenths % 10>>

\* f"{percentage:.1f}" of (count / total_students) * 100: the number with one
\* decimal nearest to it, as <<whole, tenth>>; a value half way between two
\* tenths (16 students at least) goes to the even one.  (From 80 students
\* on, the float's rounding error decides some of these.)
percentage(count, total_students) ==
    LET q == (1000 * count) \div total_students
        r == (1000 * count) % total_students
        tenths == IF 2 * r > total_students \/ (2 * r = total_students /\ q % 2 = 1)
                  THEN q + 1 ELSE q
    IN  <<tenths \div 10, tenths % 10>>

\* ReportGenerator.generate_department_report: the report as its lines,
\* each line as the tuple of its parts (the date of the "Generated on" line
\* is left out).
generate_department_report(students_list) ==
    IF students_list = <<>> THEN << <<"No students found.">> >>
    ELSE
      LET keys == {students_list[i].department : i \in DOMAIN students_list}
          departments == sorted(keys)
          dept_students(d) == SelectSeq(students_list, LAMBDA s : s.department = d)
          student_lines(s) ==
              << <<"*", s.name, s.roll>>, <<"Email", s.email>> >>
              \o (IF s.phone # <<>> THEN << <<"Phone", s.phone>> >> ELSE <<>>)
              \o << <<>> >>
          RECURSIVE lines_of(_)
          lines_of(ss) == IF ss = <<>> THEN <<>>
                          ELSE student_lines(Head(ss)) \o lines_of(Tail(ss))
          RECURSIVE sections(_)
          sections(ds) ==
              IF ds = <<>> THEN <<>>
              ELSE << <<"DEPARTMENT", Head(ds)>>, <<"-", 40>>,
                      <<"Number of Students", Len(dept_students(Head(ds)))>>,
                      <<>> >>
                   \o lines_of(OrderByName(dept_students(Head(ds))))
                   \o sections(Tail(ds))
      IN  << <<"=", 60>>, <<"STUDENT MANAGEMENT SYSTEM - DEPARTMENT REPORT">>,
             <<"=", 60>>, <<"Generated on">>,
             <<"Total Students", Len(students_list)>>,
             <<"Total Departments", Cardinality(keys)>>, <<>> >>
          \o sections(departments)

\* Variant of generate_summary_report without the check for no students.
generate_summary_report_unchecked(students_list) ==
    << <<"=", 50>>, <<"STUDENT MANAGEMENT SYSTEM - SUMMARY REPORT">>,
       <<"=", 50>>, <<"Generated on">>, <<>>, <<"OVERVIEW:">>,
       <<"Total Students", Len(students_list)>>,
       <<"Total Departments", 0>>, <<>>,
       <<"STUDENTS BY DEPARTMENT:">>, <<"-", 30>> >>

\* ReportGenerator.generate_summary_report: the report as its lines.
generate_summary_report(students_list) ==
    IF students_list = <<>> THEN << <<"No students found.">> >>
    ELSE
      LET total_students == Len(students_list)
          keys == {students_list[i].department : i \in DOMAIN students_list}
          departments == [d \in keys |->
              Cardinality({i \in DOMAIN students_list :
                              students_list[i].department = d})]
          order == sorted(keys)
      IN  << <<"=", 50>>, <<"STUDENT MANAGEMENT SYSTEM - SUMMARY REPORT">>,
             <<"=", 50>>, <<"Generated on">>, <<>>, <<"OVERVIEW:">>,
             <<"Total Students", total_students>>,
             <<"Total Departments", Cardinality(keys)>>, <<>>,
             <<"STUDENTS BY DEPARTMENT:">>, <<"-", 30>> >>
          \o [i \in 1..Len(order) |->
                <<order[i], departments[order[i]], "students",
                  percentage(departments[order[i]], total_students)>>]

(***************************************************************************)
(* The state machine                                                       *)
(***************************************************************************)

VARIABLES
    schema,       \* the tables and indexes exist in the file
    students,     \* the rows of the students table
    users,        \* the rows of the users table
    student_seq,  \* the largest student id ever assigned (AUTOINCREMENT)
    user_seq,     \* the largest user id ever assigned
    added,        \* id -> the Student add_student stored under it, until that
                  \* id is updated or deleted
    last,         \* the observed call: operation, arguments, return value or
                  \* error (NoCall while no call is observed)
    pre,          \* the file as it was when the observed call began
    app,          \* the application: the window shown, whether a login has
                  \* succeeded, the students listed and the one selected
    handles       \* the Database objects of two writers: each one's position
                  \* in its operation, its connection and its outcome

vars == <<schema, students, users, student_seq, user_seq, added, last, pre,
          app, handles>>

\* The application before main() runs (NoStudent stands for no selection).
NoApp ==
    [window |-> "none", authenticated |-> FALSE, current_students |-> <<>>,
     selected_student |-> NoStudent]

\* Database.__init__ of both writers: no connection, no operation under way.
\* txn: the connection holds the file's write lock for an uncommitted insert;
\* passed: the duplicate checks of add_student found nothing.
NoHandles ==
    [h \in 1..2 |-> [pc |-> "idle", connection |-> "None", txn |-> FALSE,
                     op |-> "", student |-> NoStudent, id |-> None,
                     fault |-> "none", passed |-> FALSE,
                     ret |-> None, err |-> ""]]

\* The largest student id the model lets AUTOINCREMENT assign.
MaxId == 2

\* The ids callers pass: None, the ids in use, and one never assigned.
Ids == 0..(MaxId + 1)

File ==
    [schema |-> schema, students |-> students, users |-> users,
     student_seq |-> student_seq, user_seq |-> user_seq]

Raw(name, roll, department, email, phone) ==
    [name |-> name, roll |-> roll, department |-> department,
     email |-> email, phone |-> phone]

\* The field values callers type in.
RawStudents ==
    { Raw(<<" ", "a", "l">>, <<"a", "_", "1">>, <<"c", "s">>,
          <<"A", "@", "b", ".", "c", "o">>, <<>>),
      Raw(<<"a", "l">>, <<"A", "_", "1", " ">>, <<"c", "s">>,
          <<"a", "@", "b", ".", "c", "o">>, <<"1", "2", "3", "4", "5", "6", "7">>),
      Raw(<<"a", "l">>, <<"b", "1">>, <<"e", "e">>,
          <<"b", "@", "b", ".", "c", "o">>, <<>>),
      Raw(<<"b", "o">>, <<"a", "_", "1">>, <<"e", "e">>,
          <<" ", "B", "@", "b", ".", "c", "o">>, <<>>),
      Raw(<<"b", "o">>, <<"c", "1">>, <<"c", "s">>,
          <<"c", "%", "x", "@", "b", ".", "c", "o">>, <<>>),
      Raw(<<"a", "b">>, <<"C", "1">>, <<"c", "s">>,
          <<"a", "@", "B", ".", "c", "o">>, <<>>) }

\* The Student each of them constructs (with no id).
Built ==
    [raw \in RawStudents |->
        Student(raw.name, raw.roll, raw.department, raw.email, raw.phone, None)]

\* Student(..., student_id) of the same fields.
WithId(s, student_id) == IF s.ok THEN [s EXCEPT !.id = student_id] ELSE s

\* The search boxes' contents.
Queries ==
    { <<>>, <<"_">>, <<"%">>, <<"a", "l">>, <<"A", "L">>, <<"c", "s">>,
      <<"a", "_">>, <<"x", "_">>, <<"C", "%">>, <<"b", ".", "c">>, <<"x", "x">> }

\* The batches read from CSV files.
Batches ==
    LET row(n) == CHOOSE r \in RawStudents :
                     /\ upper(strip(r.roll)) = n
                     /\ r.phone = <<>>
                     /\ lower(strip(r.email))[1] = CharLower(n[1])
    IN  { <<row(<<"A", "_", "1">>), row(<<"B", "1">>)>>,
          <<row(<<"B", "1">>), row(<<"C", "1">>)>>,
          <<row(<<"A", "_", "1">>), row(<<"A", "_", "1">>)>> }

NoCall ==
    [op |-> "", arg |-> None, student |-> NoStudent, fault |-> "none",
     ret |-> None, err |-> ""]

Init ==
    /\ schema = FALSE
    /\ students = {}
    /\ users = {}
    /\ student_seq = 0
    /\ user_seq = 0
    /\ added = << >>
    /\ last = NoCall
    /\ pre = File
    /\ app = NoApp
    /\ handles = NoHandles

\* A call of an operation ends: the file is what the call left. A behaviour
\* is any sequence of calls and observes at most its final call, recording it
\* in last with the file it began from in pre; so every call on every
\* reachable file is the observed call of some behaviour.
Finish(op, arg, student, fault, out) ==
    /\ last.op = ""
    /\ out.file.student_seq <= MaxId
    /\ schema' = out.file.schema
    /\ students' = out.file.students
    /\ users' = out.file.users
    /\ student_seq' = out.file.student_seq
    /\ user_seq' = out.file.user_seq
    /\ added' =
         IF op = "add_student" /\ out.err = ""
         THEN [i \in DOMAIN added \cup {out.ret} |->
                 IF i = out.ret THEN student ELSE added[i]]
         ELSE IF op = "update_student" /\ out.err = ""
         THEN [i \in DOMAIN added \ {student.id} |-> added[i]]
         ELSE IF op = "delete_student" /\ out.err = ""
         THEN [i \in DOMAIN added \ {arg} |-> added[i]]
         ELSE added
    /\ \E observe \in BOOLEAN :
         IF observe
         THEN /\ last' = [op |-> op, arg |-> arg, student |-> student,
                          fault |-> fault, ret |-> out.ret, err |-> out.err]
              /\ pre' = File
         ELSE /\ last' = NoCall
              /\ pre' = out.file
    /\ UNCHANGED <<app, handles>>

InitializeDatabase ==
    \E fault \in Faults :
        Finish("initialize_database", None, NoStudent, fault,
               initialize_database(File, fault))

\* A caller builds a Student from what was typed and passes it on.
AddStudent ==
    \E raw \in RawStudents, fault \in Faults :
        LET s == Built[raw]
        IN  /\ s.ok
            /\ Finish("add_student", raw, s, fault, add_student(File, s, fault))

UpdateStudent ==
    \E raw \in RawStudents, id \in Ids, fault \in Faults :
        LET s == WithId(Built[raw], id)
        IN  /\ s.ok
            /\ Finish("update_student", raw, s, fault, update_student(File, s, fault))

DeleteStudent ==
    \E id \in Ids, fault \in Faults :
        Finish("delete_student", id, NoStudent, fault, delete_student(File, id, fault))

GetStudent ==
    \E id \in Ids, fault \in Faults :
        Finish("get_student", id, NoStudent, fault, get_student(File, id, fault))

GetAllStudents ==
    \E fault \in Faults :
        Finish("get_all_students", None, NoStudent, fault, get_all_students(File, fault))

SearchStudents ==
    \E query \in Queries, fault \in Faults :
        Finish("search_students", query, NoStudent, fault,
               search_students(File, query, fault))

GetStudentCountByDepartment ==
    \E fault \in Faults :
        Finish("get_student_count_by_department", None, NoStudent, fault,
               get_student_count_by_department(File, fault))

ImportCsv ==
    \E students_data \in Batches, confirm \in BOOLEAN :
        \E faults \in [1..Len(students_data) -> {"none", "execute"}] :
            Finish("import_csv", students_data, NoStudent, "none",
                   import_csv(File, students_data, confirm, faults))

Next ==
    \/ InitializeDatabase
    \/ AddStudent
    \/ UpdateStudent
    \/ DeleteStudent
    \/ GetStudent
    \/ GetAllStudents
    \/ SearchStudents
    \/ GetStudentCountByDepartment
    \/ ImportCsv

Spec == Init /\ [][Next]_vars

\* The users an administrator types in (username, password).
RawUsers ==
    { <<<<" ", "b", "o", "b">>, <<"p", "w">>>>,
      <<admin, <<"p", "w">>>>,
      <<<<"a", "b">>, <<"p", "w">>>> }

\* The credentials typed at the login window.
Credentials ==
    { <<admin, admin123>>,
      <<<<"A", "d", "m", "i", "n">>, admin123>>,
      <<admin \o <<" ">>, admin123>>,
      <<admin, <<"A", "d", "m", "i", "n", "1", "2", "3">>>>,
      <<admin, <<>>>>,
      <<admin, <<"p", "w">>>>,
      <<<<"b", "o", "b">>, <<"p", "w">>>>,
      <<<<"b", "o", "b">>, admin123>> }

\* A caller builds a User from what was typed and passes it on.
AddUser ==
    \E raw \in RawUsers, fault \in Faults :
        LET u == User(raw[1], raw[2], None)
        IN  /\ u.ok
            /\ Finish("add_user", raw, NoStudent, fault, add_user(File, u, fault))

AuthenticateUser ==
    \E cred \in Credentials, fault \in Faults :
        Finish("authenticate_user", cred, NoStudent, fault,
               authenticate_user(File, cred[1], cred[2], fault))

GetUserCount ==
    \E fault \in Faults :
        Finish("get_user_count", None, NoStudent, fault, get_user_count(File, fault))

\* The store under the user operations, with students coming and going.
UsersNext ==
    \/ InitializeDatabase
    \/ AddUser
    \/ AuthenticateUser
    \/ GetUserCount
    \/ AddStudent
    \/ DeleteStudent

UsersSpec == Init /\ [][UsersNext]_vars

\* The values typed into the fields of the student form.
RawInputs ==
    LET RawNames == { <<>>, <<" ">>, <<" ", "a", "L", " ", "b", "o">>, <<"b", "o">> }
        RawRolls == { <<>>, <<" ", "a", "_", "1">>, <<"a", "!">>, <<"b", "-", "2">> }
        RawDepartments == { <<" ", " ">>, <<"c", "s", " ", "e">> }
        RawEmails ==
          { <<>>, <<" ", "A", "@", "b", ".", "c", "o">>, <<"a", "@", "b", ".", "c">> }
        RawPhones ==
          { <<>>,
            <<" ", " ", " ">>,
            <<"1", "2", "3", "4", "5", "6">>,
            <<"1", "2", "3", "4", "5", "6", "7">>,
            <<"+", "1", "2", "3", "4", "5", "6">>,
            <<"+", "1", "2", "3", "4", "5", "6", "7">>,
            <<"1", "2", "+", "4", "5", "6", "7">>,
            <<" ", "1", "2", "3", "4", "5", " ">>,
            <<"(", "1", "2", ")", " ", "3", "4", "-", "5">>,
            <<"1", "2", "a", "4", "5", "6", "7">>,
            <<"+", "0", "1", "2", "3", "4", "5", "6", "7",
              "0", "1", "2", "3", "4", "5", "6">>,
            <<"0", "1", "2", "3", "4", "5", "6", "7",
              "0", "1", "2", "3", "4", "5", "6", "7">>,
            <<" ", " ", " ", "1", "2", "3", "4", "5", "6", "7",
              "0", "1", "2", " ", " ", " ">> }
    IN  { Raw(n, r, d, e, p) :
            n \in RawNames, r \in RawRolls, d \in RawDepartments,
            e \in RawEmails, p \in RawPhones }

\* The student the store holds when the form opens.
Enrolled ==
    Student(<<"x", "o">>, <<"x", "7">>, <<"s", "e">>,
            <<"x", "@", "x", ".", "o", "x">>, <<>>, None)

\* The form is filled in; the store is initialized and holds one student.
StudentInit ==
    /\ schema = TRUE
    /\ students = {RowOf(Enrolled, 1)}
    /\ users = {[id |-> 1, username |-> admin, password |-> admin123]}
    /\ student_seq = 1
    /\ user_seq = 1
    /\ added = << >>
    /\ \E raw \in RawInputs : last = [NoCall EXCEPT !.arg = raw]
    /\ pre = File
    /\ app = NoApp
    /\ handles = NoHandles

store == <<schema, students, users, student_seq, user_seq, added>>

\* Student(name, roll, department, email, phone, student_id) of the fields.
NewStudent ==
    /\ last.op = ""
    /\ \E student_id \in {None, 1} :
          LET raw == last.arg
              s == Student(raw.name, raw.roll, raw.department, raw.email,
                           raw.phone, student_id)
          IN  last' = [last EXCEPT !.op = "Student", !.student = s, !.err = s.err]
    /\ UNCHANGED <<store, pre, app, handles>>

\* Student.from_dict(student.to_dict())
FromDictOfToDict ==
    /\ last.op = "Student"
    /\ last.student.ok
    /\ last' = [last EXCEPT !.op = "from_dict",
                            !.ret = from_dict(to_dict(last.student))]
    /\ UNCHANGED <<store, pre, app, handles>>

\* The built student is saved: add_student, or update_student when it
\* carries an id.
SaveStudent ==
    /\ last.op = "Student"
    /\ last.student.ok
    /\ LET s == last.student
           op == IF s.id = None THEN "add_student" ELSE "update_student"
       IN  \E out \in {IF s.id = None THEN add_student(File, s, "none")
                        ELSE update_student(File, s, "none")} :
           /\ schema' = out.file.schema
           /\ students' = out.file.students
           /\ users' = out.file.users
           /\ student_seq' = out.file.student_seq
           /\ user_seq' = out.file.user_seq
           /\ last' = [last EXCEPT !.op = op, !.ret = out.ret, !.err = out.err]
    /\ pre' = File
    /\ UNCHANGED <<added, app, handles>>

\* The saved students are read back.
ReadStudents ==
    /\ last.op \in {"add_student", "update_student"}
    /\ \E q \in {"get_student", "get_all_students", "search_students"} :
          LET out == IF q = "get_student"
                     THEN get_student(File, Cardinality(students), "none")
                     ELSE IF q = "get_all_students"
                     THEN get_all_students(File, "none")
                     ELSE search_students(File, <<>>, "none")
          IN  last' = [last EXCEPT !.op = q, !.ret = out.ret, !.err = out.err]
    /\ pre' = File
    /\ UNCHANGED <<store, app, handles>>

StudentNext ==
    \/ NewStudent
    \/ FromDictOfToDict
    \/ SaveStudent
    \/ ReadStudents

StudentSpec == StudentInit /\ [][StudentNext]_vars

\* The rows of the CSV files: a valid row; a row with no name and the first
\* row's roll; rows repeating the first row's roll and its email; a row with
\* the enrolled student's roll; a row with a malformed email; a row with the
\* enrolled student's email.
CsvRows ==
    { Raw(<<"a", "l">>, <<"a", "_", "1">>, <<"c", "s">>,
          <<"a", "@", "b", ".", "c", "o">>, <<>>),
      Raw(<<>>, <<"a", "_", "1">>, <<"c", "s">>,
          <<"a", "@", "b", ".", "c", "o">>, <<>>),
      Raw(<<"b", "o">>, <<"A", "_", "1">>, <<"e", "e">>,
          <<"b", "@", "b", ".", "c", "o">>, <<>>),
      Raw(<<"b", "o">>, <<"c", "1">>, <<"e", "e">>,
          <<"A", "@", "b", ".", "c", "o">>, <<>>),
      Raw(<<"a", "b">>, <<"x", "7">>, <<"c", "s">>,
          <<"c", "@", "b", ".", "c", "o">>, <<>>),
      Raw(<<"a", "b">>, <<"b", "-", "2">>, <<"c", "s">>,
          <<"e", "@", "b">>, <<>>),
      Raw(<<"a", "b">>, <<"b", "-", "2">>, <<"c", "s">>,
          <<"x", "@", "x", ".", "o", "x">>, <<"1", "2", "3", "4", "5", "6", "7">>) }

\* The longest batch of the model.
MaxRows == 3

CsvBatches ==
    UNION { [1..n -> CsvRows] : n \in 0..MaxRows }

\* import_students_from_csv returns a batch only if every field is trimmed
\* and no row lacks its name, roll, department or email.
Readable(students_data) ==
    \A i \in 1..Len(students_data) :
        LET d == students_data[i] IN
        /\ d.name # <<>> /\ d.roll # <<>> /\ d.department # <<>> /\ d.email # <<>>
        /\ \A f \in {d.name, d.roll, d.department, d.email, d.phone} : strip(f) = f

\* A batch is at hand, with the answer the user will give to the
\* confirmation; the store is initialized and holds one student.
CsvInit ==
    /\ schema = TRUE
    /\ students = {RowOf(Enrolled, 1)}
    /\ users = {[id |-> 1, username |-> admin, password |-> admin123]}
    /\ student_seq = 1
    /\ user_seq = 1
    /\ added = << >>
    /\ \E students_data \in CsvBatches, confirm \in BOOLEAN :
          last = [NoCall EXCEPT !.arg = [students_data |-> students_data,
                                         confirm |-> confirm]]
    /\ pre = File
    /\ app = NoApp
    /\ handles = NoHandles

\* CSVHandler.validate_csv_data(students_data)
ValidateCsvData ==
    /\ last.op = ""
    /\ last' = [last EXCEPT !.op = "validate_csv_data",
                            !.ret = validate_csv_data(last.arg.students_data)]
    /\ UNCHANGED <<store, pre, app, handles>>

\* StudentManagementApp._import_csv on a batch import_students_from_csv
\* returned; the insertion of each row meets a storage fault or none.
ImportCsvFile ==
    /\ last.op = ""
    /\ Readable(last.arg.students_data)
    /\ \E faults \in [1..Len(last.arg.students_data) -> {"none", "execute"}] :
          \E out \in {import_csv(File, last.arg.students_data, last.arg.confirm,
                                 faults)} :
              /\ schema' = out.file.schema
              /\ students' = out.file.students
              /\ users' = out.file.users
              /\ student_seq' = out.file.student_seq
              /\ user_seq' = out.file.user_seq
              /\ last' = [last EXCEPT !.op = "import_csv", !.fault = faults,
                                      !.ret = out.ret, !.err = out.err]
    /\ pre' = File
    /\ UNCHANGED <<added, app, handles>>

\* CSVHandler.import_students_from_csv(filename): the file holds the batch
\* as its data rows, each cell written with or without blanks around it,
\* under a header with or without the optional and the required columns.
ReadCsvFile ==
    /\ last.op = ""
    /\ \E fieldnames \in {{"Name", "Roll", "Department", "Email", "Phone"},
                          {"Name", "Roll", "Department", "Email"},
                          {"Name", "Roll", "Phone"}},
          pad \in {<<>>, <<" ">>} :
          LET cell(f) == pad \o f \o pad
              rows == [i \in DOMAIN last.arg.students_data |->
                         LET d == last.arg.students_data[i]
                         IN  Raw(cell(d.name), cell(d.roll), cell(d.department),
                                 cell(d.email), cell(d.phone))]
          IN  last' = [last EXCEPT
                         !.op = "import_students_from_csv",
                         !.arg = [fieldnames |-> fieldnames, rows |-> rows],
                         !.ret = import_students_from_csv(fieldnames, rows)]
    /\ UNCHANGED <<store, pre, app, handles>>

CsvNext ==
    \/ ValidateCsvData
    \/ ImportCsvFile
    \/ ReadCsvFile

CsvSpec == CsvInit /\ [][CsvNext]_vars

(***************************************************************************)
(* The reports of a list of students                                       *)
(***************************************************************************)

\* The longest list of students a report is made of.
MaxStudents == 3

\* A list of students is at hand: students of three departments, two of them
\* of the same name, one with a phone.
ReportInit ==
    /\ schema = TRUE
    /\ students = {}
    /\ users = {[id |-> 1, username |-> admin, password |-> admin123]}
    /\ student_seq = 0
    /\ user_seq = 1
    /\ added = << >>
    /\ LET pool ==
             { Student(<<"b", "o">>, <<"b", "1">>, <<"c", "s">>,
                       <<"b", "@", "b", ".", "c", "o">>, <<>>, None),
               Student(<<"a", "l">>, <<"a", "1">>, <<"c", "s">>,
                       <<"a", "@", "b", ".", "c", "o">>,
                       <<"1", "2", "3", "4", "5", "6", "7">>, None),
               Student(<<"a", "l">>, <<"c", "1">>, <<"e", "e">>,
                       <<"c", "@", "b", ".", "c", "o">>, <<>>, None),
               Student(<<"b", "o">>, <<"x", "7">>, <<"a", "b">>,
                       <<"x", "@", "x", ".", "o", "x">>, <<>>, None) }
       IN  \E n \in 0..MaxStudents : \E students_list \in [1..n -> pool] :
               last = [NoCall EXCEPT !.arg = students_list]
    /\ pre = File
    /\ app = NoApp
    /\ handles = NoHandles

\* ReportGenerator.generate_summary_report(students)
GenerateSummaryReport ==
    /\ last.op = ""
    /\ last' = [last EXCEPT !.op = "generate_summary_report",
                            !.ret = generate_summary_report(last.arg)]
    /\ UNCHANGED <<store, pre, app, handles>>

\* ReportGenerator.generate_department_report(students)
GenerateDepartmentReport ==
    /\ last.op = ""
    /\ last' = [last EXCEPT !.op = "generate_department_report",
                            !.ret = generate_department_report(last.arg)]
    /\ UNCHANGED <<store, pre, app, handles>>

ReportNext ==
    \/ GenerateSummaryReport
    \/ GenerateDepartmentReport

ReportSpec == ReportInit /\ [][ReportNext]_vars

(***************************************************************************)
(* The application: main() and the main window's handlers                  *)
(***************************************************************************)

\* LoginWindow._login on the application a: the username and the password
\* typed are trimmed; if neither is empty and authenticate_user returns
\* True, the window closes and on_login_success runs.  No statement of the
\* program constructs a LoginWindow, so no action below calls it.
LoginWindow_login(a, file, username, password, fault) ==
    LET u == strip(username)
        p == strip(password)
        out == authenticate_user(file, u, p, fault)
    IN  IF u = <<>> \/ p = <<>> THEN a
        ELSE IF out.err = "" /\ out.ret = TRUE
        THEN [a EXCEPT !.authenticated = TRUE]
        ELSE a

\* StudentManagementApp._load_students: the list of all students replaces
\* the listed ones, unless the store raises.
App_load_students(a, file, fault) ==
    LET out == get_all_students(file, fault)
    IN  IF out.err = "" THEN [a EXCEPT !.current_students = out.ret] ELSE a

\* The outcome out of a store operation is written to the file.
Written(out) ==
    /\ out.file.student_seq <= MaxId
    /\ schema' = out.file.schema
    /\ students' = out.file.students
    /\ users' = out.file.users
    /\ student_seq' = out.file.student_seq
    /\ user_seq' = out.file.user_seq

\* main(): the database is initialized, then the main window is built and
\* lists the students (StudentManagementApp.__init__); a failure of the
\* initialization ends the program.
main ==
    /\ app.window = "none"
    /\ \E fault \in {"none", "execute"},
          load_fault \in {"none", "connect"} :
          \E out \in {initialize_database(File, fault)} :
              /\ Written(out)
              /\ app' = IF out.err # "" THEN [app EXCEPT !.window = "exit"]
                        ELSE App_load_students([app EXCEPT !.window = "main"],
                                               out.file, load_fault)
    /\ UNCHANGED <<added, last, pre, handles>>

\* The Refresh button.
Refresh ==
    /\ app.window = "main"
    /\ \E fault \in {"none", "execute"} : app' = App_load_students(app, File, fault)
    /\ UNCHANGED <<store, last, pre, handles>>

\* StudentManagementApp._on_student_select: a listed student, or none, is
\* selected.
App_on_student_select ==
    /\ app.window = "main"
    /\ \E s \in {app.current_students[i] : i \in DOMAIN app.current_students}
                \cup {NoStudent} :
          app' = [app EXCEPT !.selected_student = s]
    /\ UNCHANGED <<store, last, pre, handles>>

\* StudentManagementApp._save_student with the Student a form built: a new
\* one is added, an edited one (the selected student's id) is updated; the
\* list is loaded again unless the store raised.
App_save_student ==
    /\ app.window = "main"
    /\ \E raw \in RawStudents, is_edit \in BOOLEAN,
          fault \in {"none", "commit"}, load_fault \in {"none", "connect"} :
          /\ is_edit => app.selected_student.ok
          /\ LET student == IF is_edit
                            THEN WithId(Built[raw], app.selected_student.id)
                            ELSE Built[raw]
             IN  /\ student.ok
                 /\ \E out \in {IF student.id = None
                                THEN add_student(File, student, fault)
                                ELSE update_student(File, student, fault)} :
                       /\ Written(out)
                       /\ app' = IF out.err = ""
                                 THEN App_load_students(app, out.file, load_fault)
                                 ELSE app
    /\ UNCHANGED <<added, last, pre, handles>>

\* StudentManagementApp._delete_student: the selected student is deleted
\* once the user confirms; the list is loaded again unless the store raised.
App_delete_student ==
    /\ app.window = "main"
    /\ app.selected_student.ok
    /\ \E fault \in {"none", "execute"},
          load_fault \in {"none", "connect"} :
          \E out \in {delete_student(File, app.selected_student.id, fault)} :
              /\ Written(out)
              /\ app' = IF out.err = ""
                        THEN App_load_students(app, out.file, load_fault)
                        ELSE app
    /\ UNCHANGED <<added, last, pre, handles>>

AppNext ==
    \/ main
    \/ Refresh
    \/ App_on_student_select
    \/ App_save_student
    \/ App_delete_student

AppSpec == Init /\ [][AppNext]_vars

(***************************************************************************)
(* Two writers: two Database objects on the same file, step by step        *)
(***************************************************************************)

\* Variant of Database_disconnect that closes the connection only when the
\* operation raised nothing.
Database_disconnect_on_success(d) ==
    [d EXCEPT !.connection = IF d.err = "" THEN "None" ELSE @,
              !.txn = FALSE, !.pc = "idle"]

\* Database.disconnect in the finally clause: the connection, if any, is
\* closed (its uncommitted work is rolled back) and self.connection is None.
Database_disconnect(d) ==
    [d EXCEPT !.connection = "None", !.txn = FALSE, !.pc = "idle"]

\* Another connection holds the write lock: a write through d waits for it
\* or gives up with sqlite3.OperationalError (database is locked).
Locked(h) == \E o \in DOMAIN handles : o # h /\ handles[o].txn

\* The store is initialized and holds one student; both writers are idle.
WritersInit ==
    /\ schema = TRUE
    /\ students = {RowOf(Enrolled, 1)}
    /\ users = {[id |-> 1, username |-> admin, password |-> admin123]}
    /\ student_seq = 1
    /\ user_seq = 1
    /\ added = << >>
    /\ last = NoCall
    /\ pre = File
    /\ app = NoApp
    /\ handles = NoHandles

\* A writer calls an operation of its Database object; each writer makes one
\* call.
Call ==
    \E h \in DOMAIN handles :
    /\ handles[h].op = ""
    /\ \E op \in {"add_student", "update_student", "delete_student", "get_student"},
          raw \in {r \in RawStudents : r.name # <<"a", "l">> /\ Built[r].ok},
          id \in 1..MaxId, fault \in Faults :
          /\ op = "add_student" => student_seq < MaxId /\ id = 1
          /\ op \in {"delete_student", "get_student"} => raw.name = <<"a", "b">>
          /\ handles' = [handles EXCEPT ![h] =
                [NoHandles[h] EXCEPT
                    !.pc = "connect", !.op = op, !.fault = fault, !.id = id,
                    !.student = IF op = "add_student" THEN Built[raw]
                                ELSE IF op = "update_student"
                                THEN WithId(Built[raw], id)
                                ELSE NoStudent]]
    /\ UNCHANGED <<store, last, pre, app>>

\* self.connect(): sqlite3.connect raises, and self.connection stays as it
\* was, or it returns the connection.
Connect ==
    \E h \in DOMAIN handles :
    LET d == handles[h] IN
    /\ d.pc = "connect"
    /\ handles' = [handles EXCEPT ![h] =
          IF d.fault = "connect"
          THEN [d EXCEPT !.pc = "finally", !.err = ErrConnect]
          ELSE [d EXCEPT !.connection = "Connection",
                         !.pc = IF d.op = "add_student" THEN "check_roll"
                                ELSE "body"]]
    /\ UNCHANGED <<store, last, pre, app>>

\* add_student: SELECT id FROM students WHERE roll = ?
CheckRoll ==
    \E h \in DOMAIN handles :
    LET d == handles[h] IN
    /\ d.pc = "check_roll"
    /\ handles' = [handles EXCEPT ![h] =
          IF d.fault = "execute"
          THEN [d EXCEPT !.pc = "finally", !.err = ErrAdd]
          ELSE IF IndexLookup(students, "roll", d.student.roll) # {}
          THEN [d EXCEPT !.pc = "finally", !.err = ErrDupRoll]
          ELSE [d EXCEPT !.pc = "check_email"]]
    /\ UNCHANGED <<store, last, pre, app>>

\* add_student: SELECT id FROM students WHERE email = ?
CheckEmail ==
    \E h \in DOMAIN handles :
    LET d == handles[h] IN
    /\ d.pc = "check_email"
    /\ handles' = [handles EXCEPT ![h] =
          IF IndexLookup(students, "email", d.student.email) # {}
          THEN [d EXCEPT !.pc = "finally", !.err = ErrDupEmail]
          ELSE [d EXCEPT !.pc = "insert", !.passed = TRUE]]
    /\ UNCHANGED <<store, last, pre, app>>

\* add_student: INSERT INTO students.  While the other writer holds the
\* write lock the statement gives up (database is locked) or waits; the
\* UNIQUE columns reject a row another writer committed in the meantime.
Insert ==
    \E h \in DOMAIN handles :
    LET d == handles[h]
        ins == InsertStudent(connect(File), d.student)
    IN
    /\ d.pc = "insert"
    /\ ins.ok => student_seq < MaxId
    /\ handles' = [handles EXCEPT ![h] =
          IF Locked(h) \/ ~ins.ok
          THEN [d EXCEPT !.pc = "finally", !.err = ErrAdd]
          ELSE [d EXCEPT !.pc = "commit", !.txn = TRUE, !.ret = ins.lastrowid]]
    /\ UNCHANGED <<store, last, pre, app>>

\* add_student: conn.commit() writes the inserted row to the file, or
\* raises.
CommitInsert ==
    \E h \in DOMAIN handles :
    LET d == handles[h]
        ins == InsertStudent(connect(File), d.student)
    IN
    /\ d.pc = "commit"
    /\ IF d.fault = "commit"
       THEN /\ handles' = [handles EXCEPT ![h] =
                  [d EXCEPT !.pc = "finally", !.ret = None, !.err = ErrAdd]]
            /\ UNCHANGED store
       ELSE /\ handles' = [handles EXCEPT ![h] =
                  [d EXCEPT !.pc = "finally", !.txn = FALSE]]
            /\ Written([file |-> commit(ins.conn).committed])
            /\ UNCHANGED added
    /\ UNCHANGED <<last, pre, app>>

\* The statements of update_student, delete_student and get_student between
\* connect and finally; a write gives up while the other writer holds the
\* write lock.
Body ==
    \E h \in DOMAIN handles :
    LET d == handles[h]
        fault == IF d.op # "get_student" /\ Locked(h) THEN "execute" ELSE d.fault
    IN
    /\ d.pc = "body"
    /\ \E out \in {IF d.op = "update_student"
                   THEN update_student(File, d.student, fault)
                   ELSE IF d.op = "delete_student"
                   THEN delete_student(File, d.id, fault)
                   ELSE get_student(File, d.id, fault)} :
          /\ Written(out)
          /\ handles' = [handles EXCEPT ![h] =
                [d EXCEPT !.pc = "finally", !.ret = out.ret, !.err = out.err]]
    /\ UNCHANGED <<added, last, pre, app>>

\* finally: self.disconnect(); the operation returns or raises.
Finally ==
    \E h \in DOMAIN handles :
    /\ handles[h].pc = "finally"
    /\ handles' = [handles EXCEPT ![h] = Database_disconnect(handles[h])]
    /\ UNCHANGED <<store, last, pre, app>>

WritersNext ==
    \/ Call
    \/ Connect
    \/ CheckRoll
    \/ CheckEmail
    \/ Insert
    \/ CommitInsert
    \/ Body
    \/ Finally

WritersSpec == WritersInit /\ [][WritersNext]_vars

(***************************************************************************)
(* Properties                                                              *)
(***************************************************************************)

IdsOf(table) == {r.id : r \in table}

\* The observed call was op and met no storage fault on an initialized file.
Ran(op) == last.op = op /\ last.fault = "none" /\ pre.schema

\* a and b differ at most in letter case and surrounding whitespace.
SameIgnoringCase(a, b) == lower(strip(a)) = lower(strip(b))

\* q is a contiguous run of characters of text.
Contains(q, text) ==
    \E k \in 0..(Len(text) - Len(q)) : SubSeq(text, k + 1, k + Len(q)) = q

\* C1: in every reachable state no two persisted students have the same roll
\* and no two have the same email.
C1_UniqueRollAndEmail ==
    \A a \in students : \A b \in students :
        a # b => a.roll # b.roll /\ a.email # b.email

\* Two students are stored and a further one with a stored roll or email was
\* turned away by add_student, update_student or the import loop.
C1_Witness ==
    /\ Cardinality(students) = 2
    /\ \/ last.op \in {"add_student", "update_student"}
          /\ last.err \in {ErrDupRoll, ErrDupEmail}
       \/ last.op = "import_csv" /\ last.ret[2] > 0

\* C2: add_student(s) raises the duplicate-roll error when a persisted
\* student has s.roll (also when another one has s.email); otherwise the
\* duplicate-email error when a persisted student has s.email; otherwise it
\* inserts exactly the row of s and returns its id, which no persisted
\* student had.
C2_AddStudentOutcome ==
    Ran("add_student") =>
        LET s == last.student IN
        IF \E p \in pre.students : p.roll = s.roll
        THEN last.err = ErrDupRoll
        ELSE IF \E p \in pre.students : p.email = s.email
        THEN last.err = ErrDupEmail
        ELSE /\ last.err = ""
             /\ last.ret \notin IdsOf(pre.students) \cup {None}
             /\ students = pre.students \cup {RowOf(s, last.ret)}

\* add_student met a roll held by one student and an email held by another
\* and reported the roll.
C2_Witness ==
    /\ Ran("add_student")
    /\ last.err = ErrDupRoll
    /\ \E p \in pre.students : \E q \in pre.students :
          p # q /\ p.roll = last.student.roll /\ q.email = last.student.email

\* C3: when add_student or update_student raises, the students and the users
\* are what they were before the call.
C3_FailureLeavesStore ==
    (last.op \in {"add_student", "update_student"} /\ last.err # "") =>
        /\ students = pre.students
        /\ users = pre.users

\* A call whose write had been executed failed at the commit.
C3_Witness ==
    /\ last.op \in {"add_student", "update_student"}
    /\ last.fault = "commit"
    /\ last.err \in {ErrAdd, ErrUpdate}
    /\ pre.students # {}

\* C4: get_student of an id that add_student returned, and that no call has
\* updated or deleted since, returns the Student added, under that id.
C4_AddThenGet ==
    (Ran("get_student") /\ last.arg \in DOMAIN added) =>
        LET s == added[last.arg] IN
        /\ last.err = ""
        /\ last.ret.ok
        /\ last.ret.id = last.arg
        /\ last.ret.name = s.name
        /\ last.ret.roll = s.roll
        /\ last.ret.department = s.department
        /\ last.ret.email = s.email
        /\ last.ret.phone = s.phone

\* get_student read back an added student after a later add and a delete of
\* another id.
C4_Witness ==
    /\ Ran("get_student")
    /\ last.arg \in DOMAIN added
    /\ last.ret.ok
    /\ last.ret.phone # <<>>
    /\ student_seq > last.arg
    /\ Cardinality(students) < student_seq

\* C5: add_student of a student typed with a roll (an email) that differs
\* from a persisted one at most in letter case and surrounding whitespace
\* raises a duplicate error and the store keeps exactly one student of that
\* roll (email).
C5_DuplicatesIgnoreCase ==
    Ran("add_student") =>
        /\ (\E p \in pre.students : SameIgnoringCase(last.arg.roll, p.roll)) =>
              /\ last.err = ErrDupRoll
              /\ Cardinality({p \in students :
                                SameIgnoringCase(last.arg.roll, p.roll)}) = 1
        /\ (\E p \in pre.students : SameIgnoringCase(last.arg.email, p.email)) =>
              /\ last.err \in {ErrDupRoll, ErrDupEmail}
              /\ Cardinality({p \in students :
                                SameIgnoringCase(last.arg.email, p.email)}) = 1

\* add_student turned away an email typed in another case and with a leading
\* blank than the stored one.
C5_Witness ==
    /\ Ran("add_student")
    /\ last.err = ErrDupEmail
    /\ \E p \in pre.students :
          /\ SameIgnoringCase(last.arg.email, p.email)
          /\ last.arg.email # p.email
          /\ Len(last.arg.email) > Len(p.email)

\* C6: update_student of a persisted id that keeps that student's roll and
\* email succeeds and get_student then returns the new field values; it
\* raises a duplicate error only when the new roll or email is that of a
\* persisted student with another id.
C6_UpdateExcludesItself ==
    Ran("update_student") =>
        LET s == last.student IN
        /\ (\E p \in pre.students :
                p.id = s.id /\ p.roll = s.roll /\ p.email = s.email) =>
              /\ last.err = ""
              /\ get_student(File, s.id, "none") = Returned(File, s)
        /\ last.err \in {ErrDupRoll, ErrDupEmail} =>
              \E p \in pre.students :
                  p.id # s.id /\ (p.roll = s.roll \/ p.email = s.email)

\* update_student changed the phone of a student, keeping its roll and email,
\* while another student was stored.
C6_Witness ==
    /\ Ran("update_student")
    /\ last.err = ""
    /\ Cardinality(students) = 2
    /\ \E p \in pre.students :
          /\ p.id = last.student.id
          /\ p.roll = last.student.roll
          /\ p.email = last.student.email
          /\ p.phone # last.student.phone

\* C7: update_student(s) raises the not-found error whenever s.id is not the
\* id of a persisted student, also when s.roll or s.email is that of a
\* persisted student.
C7_UpdateNotFoundFirst ==
    (Ran("update_student") /\ last.student.id \notin IdsOf(pre.students)) =>
        last.err = ErrNotFound

\* update_student was called with an id deleted earlier and a roll another
\* student holds, and with id None, and reported not found.
C7_Witness ==
    /\ Ran("update_student")
    /\ last.err = ErrNotFound
    /\ \/ last.student.id = None
       \/ last.student.id \in 1..student_seq
    /\ \E p \in pre.students : p.roll = last.student.roll

\* C8: delete_student(i) returns true exactly when a student with id i was
\* persisted before the call, and then removes that student and no other;
\* for an absent id it returns false, raises nothing and changes nothing; a
\* second delete_student(i) right after returns false and changes nothing.
C8_DeleteOutcome ==
    Ran("delete_student") =>
        LET second == delete_student(File, last.arg, "none") IN
        /\ last.err = ""
        /\ last.ret = (last.arg \in IdsOf(pre.students))
        /\ students = {p \in pre.students : p.id # last.arg}
        /\ users = pre.users
        /\ second = Returned(File, FALSE)

\* delete_student removed one of two students and returned true.
C8_Witness ==
    /\ Ran("delete_student")
    /\ last.ret = TRUE
    /\ Cardinality(pre.students) = 2
    /\ Cardinality(students) = 1

\* The persisted students in which q is, without regard to case, a
\* contiguous run of characters of the name, roll, department or email.
SubstringMatches(table, q) ==
    {p \in table :
        \/ Contains(lower(q), lower(p.name))
        \/ Contains(lower(q), lower(p.roll))
        \/ Contains(lower(q), lower(p.department))
        \/ Contains(lower(q), lower(p.email))}

\* C9: search_students(q) returns exactly the persisted students in which q
\* is, without regard to case, a substring of the name, roll, department or
\* email, for every q, also one with '_' or '%' in it.
C9_SearchIsSubstringMatch ==
    (Ran("search_students") /\ last.err = "") =>
        {last.ret[i].id : i \in 1..Len(last.ret)}
            = IdsOf(SubstringMatches(pre.students, last.arg))

C10_WitnessByName ==
    /\ Ran("get_all_students")
    /\ Len(last.ret) = 2
    /\ TextLess(last.ret[1].name, last.ret[2].name)
    /\ last.ret[1].id > last.ret[2].id

RECURSIVE SumOfCounts(_)
SumOfCounts(items) ==
    IF items = <<>> THEN 0 ELSE Head(items)[2] + SumOfCounts(Tail(items))

\* C11: get_student_count_by_department returns one entry for each department
\* that has a persisted student and for no other, in ascending key order, its
\* value the number of persisted students of that department; the values sum
\* to the number of persisted students.
C11_CountByDepartment ==
    Ran("get_student_count_by_department") =>
        LET items == last.ret
            keys == {items[i][1] : i \in 1..Len(items)}
        IN  /\ last.err = ""
            /\ keys = {p.department : p \in pre.students}
            /\ \A i \in 1..Len(items) : \A j \in 1..Len(items) :
                   i < j => TextLess(items[i][1], items[j][1])
            /\ \A i \in 1..Len(items) :
                   /\ items[i][2] > 0
                   /\ items[i][2] =
                        Cardinality({p \in pre.students : p.department = items[i][1]})
            /\ SumOfCounts(items) = Cardinality(pre.students)

\* Two departments were counted, and the student of the first key was added
\* after the student of the second.
C11_Witness ==
    /\ Ran("get_student_count_by_department")
    /\ Len(last.ret) = 2
    /\ \E a \in pre.students : \E b \in pre.students :
          /\ a.department = last.ret[1][1]
          /\ b.department = last.ret[2][1]
          /\ a.id > b.id

\* One department was counted with two students.
C11_WitnessTwo ==
    /\ Ran("get_student_count_by_department")
    /\ Len(last.ret) = 1
    /\ last.ret[1][2] = 2

\* The row initialize_database seeds into an empty users table.
DefaultUser(file) ==
    [id |-> file.user_seq + 1, username |-> admin, password |-> admin123]

\* C12: initialize_database inserts the default user admin/admin123 only when
\* the users table is empty: a call that succeeds on a store without users
\* leaves exactly that one user, a call on a store that has users leaves the
\* users as they were, and no call changes the students.
C12_InitializeSeedsOnce ==
    last.op = "initialize_database" =>
        /\ students = pre.students
        /\ student_seq = pre.student_seq
        /\ IF pre.users # {}
           THEN users = pre.users /\ user_seq = pre.user_seq
           ELSE IF last.err = ""
           THEN users = {DefaultUser(pre)} /\ Cardinality(users) = 1
           ELSE users = {}
        /\ last.fault = "none" => last.err = ""

\* initialize_database ran again on a store whose only user is the seeded
\* one and that holds a student.
C12_Witness ==
    /\ last.op = "initialize_database"
    /\ last.err = ""
    /\ pre.schema
    /\ pre.users = {[id |-> 1, username |-> admin, password |-> admin123]}
    /\ pre.students # {}
    /\ Cardinality(users) = 1

\* initialize_database ran on a store whose only user is not the default one.
C12_WitnessOtherUser ==
    /\ last.op = "initialize_database"
    /\ last.err = ""
    /\ Cardinality(pre.users) = 1
    /\ \A u \in pre.users : u.username # admin

\* C12 as first stated: a call on a store without users that succeeds leaves
\* one user, and a call on a store that already has users or students
\* changes neither collection.
C12_SeedsOnceOrStudents ==
    last.op = "initialize_database" =>
        /\ (pre.users = {} /\ pre.students = {} /\ last.err = "")
               => Cardinality(users) = 1
        /\ (pre.users # {} \/ pre.students # {})
               => users = pre.users /\ students = pre.students

\* C13: authenticate_user(u, p) returns true exactly when a persisted user
\* row has username u and password p, character for character, and leaves
\* the store as it was; the seeded admin/admin123 row, once persisted, is
\* still persisted after any operation, so authenticate_user('admin',
\* 'admin123') is true after a successful initialize_database on an empty
\* store and from then on.
C13_AuthenticateExact ==
    /\ Ran("authenticate_user") =>
          /\ last.err = ""
          /\ last.ret = (\E r \in pre.users : /\ r.username = last.arg[1]
                                              /\ r.password = last.arg[2])
          /\ File = pre
    /\ (last.op = "initialize_database" /\ last.err = "" /\ pre.users = {}) =>
          authenticate_user(File, admin, admin123, "none").ret = TRUE
    /\ \A r \in pre.users :
          (r.username = admin /\ r.password = admin123) => r \in users

\* authenticate_user turned away the seeded user's name with a trailing
\* space while a student and a second user were stored.
C13_Witness ==
    /\ Ran("authenticate_user")
    /\ last.arg = <<admin \o <<" ">>, admin123>>
    /\ last.ret = FALSE
    /\ authenticate_user(File, admin, admin123, "none").ret = TRUE
    /\ Cardinality(users) = 2
    /\ students # {}

\* The constructor's message for the first of the fields name, roll,
\* department, email, phone that its validator rejects ("" when none).
FirstInvalid(raw) ==
    IF ~validate_name(raw.name)[1] THEN validate_name(raw.name)[2]
    ELSE IF ~validate_roll(raw.roll)[1] THEN validate_roll(raw.roll)[2]
    ELSE IF ~validate_department(raw.department)[1]
    THEN validate_department(raw.department)[2]
    ELSE IF ~validate_email(raw.email)[1] THEN validate_email(raw.email)[2]
    ELSE IF ~validate_phone(raw.phone)[1] THEN validate_phone(raw.phone)[2]
    ELSE ""

\* C14: the Student constructor fails with the single error of the first
\* field, in the order name, roll, department, email, phone, that violates
\* its rule, and succeeds when no field does.
C14_FirstInvalidFieldReported ==
    last.op = "Student" =>
        /\ last.err = FirstInvalid(last.arg)
        /\ last.student.ok <=> FirstInvalid(last.arg) = ""

\* The name was empty and the email malformed: the name error was reported.
C14_Witness ==
    /\ last.op = "Student"
    /\ last.arg.name = <<>>
    /\ ~validate_email(last.arg.email)[1]
    /\ validate_roll(last.arg.roll)[1]
    /\ last.err = "Name cannot be empty"

\* C15: for every field tuple the Student constructor accepts,
\* Student.from_dict(s.to_dict()) succeeds and has the same id, name, roll,
\* department, email and phone as s.
C15_RevalidationIsIdentity ==
    last.op = "from_dict" =>
        /\ last.ret.ok
        /\ last.ret.id = last.student.id
        /\ last.ret.name = last.student.name
        /\ last.ret.roll = last.student.roll
        /\ last.ret.department = last.student.department
        /\ last.ret.email = last.student.email
        /\ last.ret.phone = last.student.phone

\* A student whose every typed field was changed by validation, and who
\* carries an id, was rebuilt from its dictionary.
C15_Witness ==
    /\ last.op = "from_dict"
    /\ last.ret.ok
    /\ last.student.id = 1
    /\ last.student.name # last.arg.name
    /\ last.student.roll # last.arg.roll
    /\ last.student.department # last.arg.department
    /\ last.student.email # last.arg.email
    /\ last.student.phone # last.arg.phone

\* The rules a validated Student's fields satisfy.
Validated(s) ==
    /\ s.name # <<>> /\ s.name = title(strip(s.name))
    /\ s.department # <<>> /\ s.department = title(strip(s.department))
    /\ s.roll # <<>> /\ s.roll = upper(s.roll)
    /\ \A i \in 1..Len(s.roll) : IsUpper(s.roll[i]) \/ IsDigit(s.roll[i])
                                   \/ s.roll[i] \in {"-", "_"}
    /\ s.email = lower(s.email) /\ email_pattern(s.email)
    /\ s.phone = <<>> \/ phone_pattern(s.phone)

\* C16: every Student built from typed fields, rebuilt by from_dict or
\* returned by a store query is fully validated, every persisted row
\* satisfies the same rules, and no read of the store fails.
C16_StudentsAreValidated ==
    /\ last.student.ok => Validated(last.student)
    /\ last.op = "from_dict" => last.ret.ok /\ Validated(last.ret)
    /\ \A r \in students : Validated(r)
    /\ last.op \in {"get_student", "get_all_students", "search_students"} =>
          last.err = ""
    /\ last.op = "get_student" => last.ret.ok /\ Validated(last.ret)
    /\ last.op \in {"get_all_students", "search_students"} =>
          /\ Len(last.ret) = Cardinality(students)
          /\ \A i \in 1..Len(last.ret) : last.ret[i].ok /\ Validated(last.ret[i])

\* A student whose typed name, roll, department, email and phone all needed
\* cleaning was saved by update_student and read back.
C16_Witness ==
    /\ last.op = "get_student"
    /\ last.ret.ok
    /\ last.ret.id = 1
    /\ last.ret.name = <<"A", "l", " ", "B", "o">>
    /\ last.ret.roll = <<"A", "_", "1">>
    /\ last.ret.email = <<"a", "@", "b", ".", "c", "o">>
    /\ Len(last.ret.phone) = 10
    /\ Len(last.arg.phone) = 16

\* The same, saved by add_student next to the enrolled student.
C16_WitnessAdded ==
    /\ last.op = "get_all_students"
    /\ Len(last.ret) = 2
    /\ last.ret[1].name = <<"A", "l", " ", "B", "o">>
    /\ last.ret[1].id = 2

\* The other four fields pass their validators, so the phone decides.
PhoneDecides(raw) ==
    /\ validate_name(raw.name)[1]
    /\ validate_roll(raw.roll)[1]
    /\ validate_department(raw.department)[1]
    /\ validate_email(raw.email)[1]

\* Empty, or 7 to 15 characters each a digit, a space, '+', '-', '(' or ')'.
PhoneRuleAsStated(phone) ==
    \/ phone = <<>>
    \/ /\ Len(phone) >= 7
       /\ Len(phone) <= 15
       /\ \A i \in 1..Len(phone) :
             IsDigit(phone[i]) \/ phone[i] \in {" ", "+", "-", "(", ")"}

\* Empty, or once the surrounding whitespace is trimmed: an optional '+'
\* and then 7 to 15 characters each a digit, a space, '-', '(' or ')'.
PhoneRuleOfPattern(phone) ==
    \/ phone = <<>>
    \/ LET p == strip(phone)
           plus == IF p # <<>> /\ p[1] = "+" THEN 1 ELSE 0
       IN  /\ Len(p) - plus >= 7
           /\ Len(p) - plus <= 15
           /\ \A i \in (plus + 1)..Len(p) :
                 IsDigit(p[i]) \/ p[i] \in {" ", "-", "(", ")"}

\* C17 as first stated: the constructor accepts a phone exactly when it is
\* empty or 7 to 15 characters of digits, spaces, '+', '-' and parentheses,
\* and rejects any other with the invalid-phone error.
C17_PhoneRuleAsStated ==
    (last.op = "Student" /\ PhoneDecides(last.arg)) =>
        /\ last.student.ok <=> PhoneRuleAsStated(last.arg.phone)
        /\ ~last.student.ok => last.err = "Invalid phone number format"

\* C17: the constructor accepts a phone exactly when it is empty or, with
\* the surrounding whitespace trimmed, an optional leading '+' followed by 7
\* to 15 characters each a digit, a space, '-', '(' or ')'; it stores the
\* trimmed value and rejects any other phone with the invalid-phone error.
C17_PhoneRule ==
    (last.op = "Student" /\ PhoneDecides(last.arg)) =>
        /\ last.student.ok <=> PhoneRuleOfPattern(last.arg.phone)
        /\ last.student.ok => last.student.phone = strip(last.arg.phone)
        /\ ~last.student.ok => last.err = "Invalid phone number format"

\* A phone of '+' and fifteen digits was accepted.
C17_Witness ==
    /\ last.op = "Student"
    /\ last.student.ok
    /\ Len(last.arg.phone) = 16
    /\ last.arg.phone[1] = "+"

\* A phone with '+' in the middle was rejected.
C17_WitnessRejected ==
    /\ last.op = "Student"
    /\ PhoneDecides(last.arg)
    /\ last.arg.phone = <<"1", "2", "+", "4", "5", "6", "7">>
    /\ last.err = "Invalid phone number format"

\* The messages validate_csv_data reported for row i.
RowErrors(errors, i) == {errors[k][2] : k \in {k \in 1..Len(errors) : errors[k][1] = i}}

\* The number of errors reported for row i.
RowErrorCount(errors, i) == Cardinality({k \in 1..Len(errors) : errors[k][1] = i})

\* What validate_csv_data owes a batch, given which earlier rows count for
\* the duplicate checks of a valid row: the errors come in row order, a row
\* the constructor rejects has that one error, a valid row has the duplicate
\* errors its roll and email call for, and no other row has any.
BatchErrorsAreExact(students_data, errors, Counts(_)) ==
    LET built == [i \in 1..Len(students_data) |->
                    Student(students_data[i].name, students_data[i].roll,
                            students_data[i].department, students_data[i].email,
                            students_data[i].phone, None)]
        roll_of(j) == validate_roll(students_data[j].roll)
        email_of(j) == validate_email(students_data[j].email)
        repeats_roll(i) == \E j \in 1..(i - 1) :
            Counts(built[j]) /\ roll_of(j)[1] /\ roll_of(j)[2] = built[i].roll
        repeats_email(i) == \E j \in 1..(i - 1) :
            Counts(built[j]) /\ email_of(j)[1] /\ email_of(j)[2] = built[i].email
    IN  /\ \A k \in 1..Len(errors) : errors[k][1] \in 1..Len(students_data)
        /\ \A k \in 1..Len(errors) : \A l \in 1..Len(errors) :
              k < l => errors[k][1] <= errors[l][1]
        /\ \A i \in 1..Len(students_data) :
              IF ~built[i].ok
              THEN /\ RowErrors(errors, i) = {built[i].err}
                   /\ RowErrorCount(errors, i) = 1
              ELSE /\ repeats_roll(i) <=>
                          "Duplicate roll number in import data" \in RowErrors(errors, i)
                   /\ repeats_email(i) <=>
                          "Duplicate email in import data" \in RowErrors(errors, i)
                   /\ RowErrors(errors, i) \subseteq
                          {"Duplicate roll number in import data",
                           "Duplicate email in import data"}
                   /\ RowErrorCount(errors, i) = Cardinality(RowErrors(errors, i))

AnyRow(s) == TRUE
ValidRow(s) == s.ok

\* C18 as first stated: validate_csv_data returns, in row order, the
\* validation error of every row that fails validation and a duplicate error
\* for every valid row whose normalized roll or email repeats that of an
\* earlier row of the batch, and no error for any other row.
C18_ErrorsForEarlierRows ==
    last.op = "validate_csv_data" =>
        BatchErrorsAreExact(last.arg.students_data, last.ret, AnyRow)

\* C18: validate_csv_data returns, in row order, the validation error of
\* every row that fails validation and a duplicate error for every valid row
\* whose normalized roll or email repeats that of an earlier valid row of the
\* batch, and no error for any other row; a failing row does not stop it.
C18_BatchErrors ==
    last.op = "validate_csv_data" =>
        BatchErrorsAreExact(last.arg.students_data, last.ret, ValidRow)

\* A 3-row batch with an empty name in row 2 and row 1's roll repeated in
\* row 3 gave exactly two errors, for rows 2 and 3.
C18_Witness ==
    /\ last.op = "validate_csv_data"
    /\ Len(last.arg.students_data) = 3
    /\ last.arg.students_data[2].name = <<>>
    /\ Len(last.ret) = 2
    /\ last.ret[1] = <<2, "Name cannot be empty">>
    /\ last.ret[2] = <<3, "Duplicate roll number in import data">>

\* The insertion loop of _import_csv ran: the batch was not empty, passed
\* validate_csv_data and the user confirmed.
LoopRan ==
    /\ last.op = "import_csv"
    /\ last.arg.students_data # <<>>
    /\ validate_csv_data(last.arg.students_data) = <<>>
    /\ last.arg.confirm

\* Row i of the imported batch failed: its insertion met a storage fault, or
\* a student persisted before the import has its roll or its email.
RowFails(i) ==
    LET d == last.arg.students_data[i]
        s == Student(d.name, d.roll, d.department, d.email, d.phone, None)
    IN  \/ last.fault[i] # "none"
        \/ ~s.ok
        \/ \E p \in pre.students : p.roll = s.roll \/ p.email = s.email

\* C19: the insertion loop processes every row although earlier rows fail:
\* inserted_count + failed_count is the number of rows, the persisted
\* students have grown by exactly inserted_count and none was removed, and
\* failed_count is the number of failing rows.
C19_ImportLoopCounts ==
    LoopRan =>
        LET n == Len(last.arg.students_data)
            inserted_count == last.ret[1]
            failed_count == last.ret[2]
        IN  /\ last.err = ""
            /\ inserted_count + failed_count = n
            /\ pre.students \subseteq students
            /\ Cardinality(students) = Cardinality(pre.students) + inserted_count
            /\ failed_count = Cardinality({i \in 1..n : RowFails(i)})
            /\ \A i \in 1..n : ~RowFails(i) =>
                  LET d == last.arg.students_data[i]
                      s == Student(d.name, d.roll, d.department, d.email, d.phone, None)
                  IN  \E r \in students \ pre.students :
                          r.roll = s.roll /\ r.email = s.email

\* In a 3-row import the first row was inserted, the second failed on the
\* roll of a persisted student and the third was inserted after it.
C19_Witness ==
    /\ LoopRan
    /\ Len(last.arg.students_data) = 3
    /\ last.fault = <<"none", "none", "none">>
    /\ ~RowFails(1) /\ RowFails(2) /\ ~RowFails(3)
    /\ last.ret = <<2, 1>>
    /\ Cardinality(students) = 3

\* C20: when validate_csv_data reports an error or the user declines the
\* confirmation, _import_csv inserts nothing and leaves the store unchanged;
\* rows are inserted only after validate_csv_data returned no error for the
\* whole batch.
C20_ImportBlockedOnErrors ==
    last.op = "import_csv" =>
        /\ (validate_csv_data(last.arg.students_data) # <<>> \/ ~last.arg.confirm)
              => File = pre /\ last.ret = <<0, 0>>
        /\ File # pre => validate_csv_data(last.arg.students_data) = <<>>

\* A confirmed 3-row batch whose first two rows could have been inserted was
\* blocked by the error of its third row.
C20_Witness ==
    /\ last.op = "import_csv"
    /\ last.arg.confirm
    /\ Len(last.arg.students_data) = 3
    /\ validate_csv_data(SubSeq(last.arg.students_data, 1, 2)) = <<>>
    /\ \A i \in 1..2 : \A p \in pre.students :
          LET d == last.arg.students_data[i]
              s == Student(d.name, d.roll, d.department, d.email, d.phone, None)
          IN  p.roll # s.roll /\ p.email # s.email
    /\ Len(validate_csv_data(last.arg.students_data)) = 1
    /\ File = pre

\* C21: a data row of a CSV file that lacks a required value is a failure of
\* that row only: import_students_from_csv does not fail, and it delivers
\* the other rows of the file, trimmed.
C21_MissingValueIsPerRow ==
    (last.op = "import_students_from_csv"
     /\ {"Name", "Roll", "Department", "Email"} \subseteq last.arg.fieldnames)
    => LET complete(row) ==
               \A f \in {row.name, row.roll, row.department, row.email} :
                   strip(f) # <<>>
           delivered == SelectSeq(last.arg.rows, complete)
       IN  /\ last.ret.err = ""
           /\ Len(last.ret.ret) = Len(delivered)
           /\ \A i \in 1..Len(delivered) :
                 /\ last.ret.ret[i].name = strip(delivered[i].name)
                 /\ last.ret.ret[i].roll = strip(delivered[i].roll)
                 /\ last.ret.ret[i].department = strip(delivered[i].department)
                 /\ last.ret.ret[i].email = strip(delivered[i].email)

\* A file with all the required columns was read and the call failed on a
\* row that lacks a required value, after a complete row.
C21_HardFailure ==
    /\ last.op = "import_students_from_csv"
    /\ last.ret.err = "Failed to import CSV: Error in row"
    /\ last.ret.row = 3

\* C22: the main window, whose construction lists the students and whose
\* handlers add, edit, delete and list them, is shown only after a call of
\* authenticate_user has returned true.
C22_LoginGate == app.window = "main" => app.authenticated

\* The main window is up, a student was added through it, and no login has
\* taken place.
C22_ManagedWithoutLogin ==
    /\ app.window = "main"
    /\ ~app.authenticated
    /\ Len(app.current_students) > 0

\* C23: between operations no connection is held open: once an operation
\* of a Database object has returned or raised (a duplicate, a missing
\* student, a storage error, a failed connect), the object's connection is
\* None.
C23_ConnectionReleased ==
    \A h \in DOMAIN handles :
        handles[h].pc = "idle" => handles[h].connection = "None"

\* Both writers' operations are over: one raised a duplicate or a missing
\* student, the other failed to connect.
C23_Witness ==
    \E h, o \in DOMAIN handles :
        /\ handles[h].pc = "idle" /\ handles[o].pc = "idle"
        /\ handles[h].err \in {ErrDupRoll, ErrDupEmail, ErrNotFound}
        /\ handles[o].err = ErrConnect

\* One writer's operation returned and the other's met a storage error after
\* connecting.
C23_WitnessReturned ==
    \E h, o \in DOMAIN handles :
        /\ handles[h].pc = "idle" /\ handles[o].pc = "idle"
        /\ handles[h].op # "" /\ handles[h].err = ""
        /\ handles[o].err \in {ErrAdd, ErrUpdate, ErrDelete}

\* C27: two writers whose add_student calls both pass the duplicate checks
\* for the same roll or the same email, and meet no storage fault: exactly
\* one row is persisted, under the id its writer got back; the other call
\* raises and returns no id.  The store never holds two students with the
\* same roll or the same email.
C27_OneInsertPersists ==
    /\ \A r1, r2 \in students :
          r1 # r2 => r1.roll # r2.roll /\ r1.email # r2.email
    /\ LET a == handles[1]
           b == handles[2]
           Won(d) == /\ d.err = ""
                     /\ RowOf(d.student, d.ret) \in students
           Lost(d) == d.err = ErrAdd /\ d.ret = None
       IN  (/\ a.pc = "idle" /\ b.pc = "idle"
            /\ a.op = "add_student" /\ b.op = "add_student"
            /\ a.passed /\ b.passed
            /\ a.fault = "none" /\ b.fault = "none"
            /\ (a.student.roll = b.student.roll
                \/ a.student.email = b.student.email))
           => \/ Won(a) /\ Lost(b)
              \/ Won(b) /\ Lost(a)

\* Both writers passed the checks for the same roll; the second one's insert
\* came after the first one's commit and was rejected.
C27_Witness ==
    /\ handles[1].pc = "idle" /\ handles[2].pc = "idle"
    /\ handles[1].passed /\ handles[2].passed
    /\ handles[1].fault = "none" /\ handles[2].fault = "none"
    /\ handles[1].student.roll = handles[2].student.roll
    /\ handles[1].student.email # handles[2].student.email
    /\ handles[1].err = ErrAdd /\ handles[2].err = ""
    /\ handles[2].ret = student_seq

\* C24: add_user of a username the store holds raises the store's failure
\* and leaves the users and get_user_count() as they were; add_user of a
\* new username adds exactly that user, under a fresh id, and raises
\* get_user_count() by one.
C24_AddUser ==
    Ran("add_user") =>
        LET u == User(last.arg[1], last.arg[2], None)
            before == get_user_count(pre, "none").ret
            after == get_user_count(File, "none").ret
        IN  IF \E r \in pre.users : r.username = u.username
            THEN /\ last.err = ErrAddUser
                 /\ users = pre.users
                 /\ after = before
            ELSE /\ last.err = ""
                 /\ last.ret \notin {r.id : r \in pre.users}
                 /\ users = pre.users \cup {[id |-> last.ret,
                                             username |-> u.username,
                                             password |-> u.password]}
                 /\ after = before + 1

\* add_user of the default user's name, with another password, was refused.
C24_Witness ==
    /\ Ran("add_user")
    /\ last.arg[1] = admin
    /\ last.err = ErrAddUser
    /\ Cardinality(users) = 2

\* add_user of a new username returned its id.
C24_WitnessAdded ==
    /\ Ran("add_user")
    /\ last.err = ""
    /\ last.ret = 2
    /\ Cardinality(users) = 2

\* C25: the summary report of a non-empty list gives the number of students
\* and of departments, then one line for each department of the list, in
\* ascending order, with the number c of the list's students of that
\* department and 100*c/total to the nearest tenth; the counts add up to the
\* total.
C25_SummaryReport ==
    (last.op = "generate_summary_report" /\ last.arg # <<>>) =>
        LET report == last.ret
            total == Len(last.arg)
            present == {last.arg[i].department : i \in DOMAIN last.arg}
            rows == SubSeq(report, 12, Len(report))
            tenths(row) == 10 * row[4][1] + row[4][2]
            RECURSIVE Sum(_)
            Sum(rs) == IF rs = <<>> THEN 0 ELSE Head(rs)[2] + Sum(Tail(rs))
        IN  /\ report[7] = <<"Total Students", total>>
            /\ report[8] = <<"Total Departments", Cardinality(present)>>
            /\ {rows[i][1] : i \in DOMAIN rows} = present
            /\ Len(rows) = Cardinality(present)
            /\ \A i \in 1..(Len(rows) - 1) : TextLess(rows[i][1], rows[i + 1][1])
            /\ \A i \in DOMAIN rows :
                  /\ rows[i][2] = Cardinality({j \in DOMAIN last.arg :
                                     last.arg[j].department = rows[i][1]})
                  /\ rows[i][4][2] \in 0..9
                  /\ 2 * tenths(rows[i]) * total - 2000 * rows[i][2] <= total
                  /\ 2000 * rows[i][2] - 2 * tenths(rows[i]) * total <= total
            /\ Sum(rows) = total

\* Two students of one department and one of another: 66.7% and 33.3%.
C25_Witness ==
    /\ last.op = "generate_summary_report"
    /\ Len(last.arg) = 3
    /\ Len(last.ret) = 13
    /\ last.ret[12][2] = 2 /\ last.ret[12][4] = <<66, 7>>
    /\ last.ret[13][2] = 1 /\ last.ret[13][4] = <<33, 3>>

\* C26: both reports of an empty list are exactly "No students found.";
\* the report of a non-empty list is another, non-empty text.
C26_EmptyReports ==
    last.op \in {"generate_summary_report", "generate_department_report"} =>
        IF last.arg = <<>>
        THEN Len(last.ret) = 1 /\ last.ret[1] = <<"No students found.">>
        ELSE Len(last.ret) > 1 /\ last.ret[1][1] # "No students found."

\* The summary report of an empty list was made.
C26_Witness ==
    /\ last.op = "generate_summary_report"
    /\ last.arg = <<>>
    /\ last.ret[1][1] = "No students found."

\* The department report of an empty list was made.
C26_WitnessDepartment ==
    /\ last.op = "generate_department_report"
    /\ last.arg = <<>>
    /\ last.ret[1][1] = "No students found."

\* C28 as first stated: validate_csv_data returns at most one error for
\* each row, so no more errors than the batch has rows.
C28_OneErrorPerRow ==
    last.op = "validate_csv_data" =>
        /\ \A i \in 1..Len(last.arg.students_data) : RowErrorCount(last.ret, i) <= 1
        /\ Len(last.ret) <= Len(last.arg.students_data)

\* C28: validate_csv_data returns one error for a row the constructor
\* rejects and at most two for a row it accepts, so no more errors than
\* twice the rows of the batch; a row has two exactly when it is valid and
\* both its roll and its email repeat those of earlier valid rows.
C28_ErrorsPerRow ==
    last.op = "validate_csv_data" =>
        LET rows == last.arg.students_data
            built(i) == Student(rows[i].name, rows[i].roll, rows[i].department,
                                rows[i].email, rows[i].phone, None)
            both(i) == /\ built(i).ok
                       /\ \E j \in 1..(i - 1) :
                             built(j).ok /\ built(j).roll = built(i).roll
                       /\ \E j \in 1..(i - 1) :
                             built(j).ok /\ built(j).email = built(i).email
        IN  /\ \A i \in 1..Len(rows) :
                  /\ RowErrorCount(last.ret, i) <= 2
                  /\ ~built(i).ok => RowErrorCount(last.ret, i) = 1
                  /\ RowErrorCount(last.ret, i) = 2 <=> both(i)
            /\ Len(last.ret) <= 2 * Len(rows)

\* The second row of a batch repeats the roll and the email of the first:
\* two errors for row 2.
C28_Witness ==
    /\ last.op = "validate_csv_data"
    /\ Len(last.arg.students_data) = 2
    /\ last.arg.students_data[1] = last.arg.students_data[2]
    /\ last.ret = << <<2, "Duplicate roll number in import data">>,
                    <<2, "Duplicate email in import data">> >>

\* C29: student ids are never reused.  The largest id ever assigned never
\* goes down and bounds the ids of the table; a row that appears has an id
\* above it; a successful add_student returns that new largest id, so an id
\* greater than every id returned before, a failed one assigns none; and
\* update_student leaves every student's id as it was.
C29_IdsNeverReused ==
    [][/\ student_seq' >= student_seq
       /\ \A id \in IdsOf(students) : id <= student_seq
       /\ \A id \in IdsOf(students') \ IdsOf(students) : id > student_seq
       /\ last'.op = "add_student" =>
             IF last'.err = ""
             THEN /\ last'.ret = student_seq'
                  /\ last'.ret > student_seq
                  /\ IdsOf(students') = IdsOf(students) \cup {last'.ret}
             ELSE /\ student_seq' = student_seq
                  /\ students' = students
       /\ last'.op = "update_student" =>
             /\ student_seq' = student_seq
             /\ IdsOf(students') = IdsOf(students)
             /\ \A r \in students : r.id # last'.student.id => r \in students'
      ]_vars

\* The student with the highest id was deleted, and the next add_student
\* returned an id above it.
C29_Witness ==
    /\ Ran("add_student")
    /\ last.err = ""
    /\ last.ret = 2
    /\ pre.students = {}
    /\ pre.student_seq = 1

\* C30: a batch for which validate_csv_data returns no error consists of
\* rows that construct valid Students with pairwise distinct rolls and
\* pairwise distinct emails; and when such a batch is imported and no
\* storage fault occurs, the rows counted as failed are exactly those whose
\* roll or email a student persisted before the import has.
C30_CleanBatch ==
    LET rows == last.arg.students_data
        built(i) == Student(rows[i].name, rows[i].roll, rows[i].department,
                            rows[i].email, rows[i].phone, None)
        taken(i) == \E p \in pre.students :
                        p.roll = built(i).roll \/ p.email = built(i).email
    IN  /\ (last.op = "validate_csv_data" /\ last.ret = <<>>) =>
              /\ \A i \in 1..Len(rows) : built(i).ok
              /\ \A i \in 1..Len(rows) : \A j \in 1..Len(rows) :
                    i # j => /\ built(i).roll # built(j).roll
                             /\ built(i).email # built(j).email
        /\ (LoopRan /\ \A i \in 1..Len(rows) : last.fault[i] = "none") =>
              /\ last.ret[2] = Cardinality({i \in 1..Len(rows) : taken(i)})
              /\ \A i \in 1..Len(rows) :
                    ~taken(i) => \E r \in students \ pre.students :
                                    /\ r.roll = built(i).roll
                                    /\ r.email = built(i).email

\* A clean batch of three rows was imported with no storage fault: the row
\* with the enrolled student's roll failed, the other two were inserted.
C30_Witness ==
    /\ LoopRan
    /\ Len(last.arg.students_data) = 3
    /\ \A i \in 1..3 : last.fault[i] = "none"
    /\ last.ret = <<2, 1>>

\* A batch of three rows passed validate_csv_data.
C30_WitnessValidated ==
    /\ last.op = "validate_csv_data"
    /\ Len(last.arg.students_data) = 3
    /\ last.ret = <<>>

====
